---- MODULE Spec2Model ----
(***************************************************************************)
(* A model of the orchestration engine of Pointy (src/src/pointy.js): the  *)
(* instance's fields, its timers (setTimeout / setInterval /               *)
(* requestAnimationFrame callbacks that are pending), and the event bus.   *)
(*                                                                         *)
(* Every method of the class is a state transformer: an operator that      *)
(* takes the whole state s (a record of the instance's fields plus the     *)
(* host's pending timers and the log of what the call emitted) and returns *)
(* the state after the call, nested calls included.  An action of the      *)
(* model is one caller operation, one timer callback, one animation frame  *)
(* or the passing of time.                                                 *)
(*                                                                         *)
(* Indices (currentStepIndex, currentMessageIndex) are 0-based as in the   *)
(* source; TLA+ sequences are 1-based, so steps[i + 1] is the source's     *)
(* steps[i].  DOM styling (classes, opacity, transitions, coordinates) is  *)
(* not part of the state.                                                  *)
(***************************************************************************)
EXTENDS Integers, Sequences, FiniteSets, TLC

VARIABLES
    \* ---- configuration fields of the instance (constructor, 437-462) ----
    steps, animationDuration, introFadeDuration, messageInterval,
    autoplay, autoplayEnabled, autoplayWaitForMessages,
    resetOnComplete, hideOnComplete, hideOnCompleteDelay,
    tracking, initialPosition, resetPositionOnHide, options,
    \* ---- state fields of the instance (constructor, 457-480) ----
    targetElement, currentStepIndex, currentMessageIndex, currentMessages,
    contentOwner, isVisible, isPointingUp, manualDirection, _hasShownBefore,
    _autoplayPaused, _messagesCompletedForStep,
    _messageCyclePaused, _messageCyclePausedByHide,
    _wasAutoplayActiveBeforeHide,
    _autoplayTimeoutId, _messageIntervalId, _hideOnCompleteTimeoutId,
    moveTimeout, _rafId, _eventListeners,
    _targetYHistory, _lastDirectionChangeTime,
    \* ---- the host: pending timers and animation frames, the page ----
    timers, frames, page,
    \* ---- observation: what the last action emitted and called ----
    log,
    \* ---- history (read by the properties only) ----
    lastOp, budget, hist

vars == << steps, animationDuration, introFadeDuration, messageInterval,
           autoplay, autoplayEnabled, autoplayWaitForMessages,
           resetOnComplete, hideOnComplete, hideOnCompleteDelay,
           tracking, initialPosition, resetPositionOnHide, options,
           targetElement, currentStepIndex, currentMessageIndex,
           currentMessages, contentOwner, isVisible, isPointingUp,
           manualDirection, _hasShownBefore, _autoplayPaused,
           _messagesCompletedForStep, _messageCyclePaused,
           _messageCyclePausedByHide, _wasAutoplayActiveBeforeHide,
           _autoplayTimeoutId, _messageIntervalId, _hideOnCompleteTimeoutId,
           moveTimeout, _rafId, _eventListeners, _targetYHistory,
           _lastDirectionChangeTime, timers, frames, page, log,
           lastOp, budget, hist >>

----------------------------------------------------------------------------
\* JavaScript values

\* null, for the numeric fields (autoplay, messageInterval, hideOnCompleteDelay)
Null == -1
\* undefined, for an absent numeric property (step.duration)
Undefined == -2
\* a timer handle that is null
NoTimer == 0
\* null where an element is expected (querySelector found nothing)
NoElement == "null"
\* no exception is on its way to the caller
NoException == [ on |-> FALSE ]

\* JavaScript truthiness of a number-or-null value: if (x) ...
Truthy(x) == x # Null /\ x # Undefined /\ x # 0

\* a comparison that never finds two values the same
neverSame(a, b) == FALSE

\* a === b on the modelled values
sameValue(a, b) == a = b

\* LET v == value IN body(v), written so that the value is computed once,
\* before the body: a statement of the source ends before the next one starts
Let(value, body(_)) == CHOOSE r \in { body(v) : v \in { value } } : TRUE

----------------------------------------------------------------------------
\* The document: selectors and the elements they resolve to

Selectors == {"#a", "#b", "#c", "#missing"}

querySelector(sel) ==
    CASE sel = "#a" -> "elA"
      [] sel = "#b" -> "elB"
      [] sel = "#c" -> "elC"
      [] OTHER -> NoElement

\* Pointy.getTargetElement: a string is looked up, anything else is returned
getTargetElement(target) ==
    IF target \in Selectors THEN querySelector(target) ELSE target

\* A step's content is one message or an array of messages; the model tags
\* which.  Array.isArray(content) ? content : [content]
normalizeContent(content) ==
    IF content.isArray THEN content.items ELSE << content.items >>

----------------------------------------------------------------------------
\* The state as one record, and its installation as the next state

Cur ==
    [ steps |-> steps, animationDuration |-> animationDuration,
      introFadeDuration |-> introFadeDuration,
      messageInterval |-> messageInterval, autoplay |-> autoplay,
      autoplayEnabled |-> autoplayEnabled,
      autoplayWaitForMessages |-> autoplayWaitForMessages,
      resetOnComplete |-> resetOnComplete, hideOnComplete |-> hideOnComplete,
      hideOnCompleteDelay |-> hideOnCompleteDelay, tracking |-> tracking,
      initialPosition |-> initialPosition,
      resetPositionOnHide |-> resetPositionOnHide, options |-> options,
      targetElement |-> targetElement, currentStepIndex |-> currentStepIndex,
      currentMessageIndex |-> currentMessageIndex,
      currentMessages |-> currentMessages, contentOwner |-> contentOwner,
      isVisible |-> isVisible, isPointingUp |-> isPointingUp,
      manualDirection |-> manualDirection,
      _hasShownBefore |-> _hasShownBefore,
      _autoplayPaused |-> _autoplayPaused,
      _messagesCompletedForStep |-> _messagesCompletedForStep,
      _messageCyclePaused |-> _messageCyclePaused,
      _messageCyclePausedByHide |-> _messageCyclePausedByHide,
      _wasAutoplayActiveBeforeHide |-> _wasAutoplayActiveBeforeHide,
      _autoplayTimeoutId |-> _autoplayTimeoutId,
      _messageIntervalId |-> _messageIntervalId,
      _hideOnCompleteTimeoutId |-> _hideOnCompleteTimeoutId,
      moveTimeout |-> moveTimeout, _rafId |-> _rafId,
      _eventListeners |-> _eventListeners,
      _targetYHistory |-> _targetYHistory,
      _lastDirectionChangeTime |-> _lastDirectionChangeTime,
      timers |-> timers, frames |-> frames, page |-> page,
      log |-> << >>, hist |-> hist,
      uncaught |-> NoException ]

Install(s) ==
    /\ steps' = s.steps
    /\ animationDuration' = s.animationDuration
    /\ introFadeDuration' = s.introFadeDuration
    /\ messageInterval' = s.messageInterval
    /\ autoplay' = s.autoplay
    /\ autoplayEnabled' = s.autoplayEnabled
    /\ autoplayWaitForMessages' = s.autoplayWaitForMessages
    /\ resetOnComplete' = s.resetOnComplete
    /\ hideOnComplete' = s.hideOnComplete
    /\ hideOnCompleteDelay' = s.hideOnCompleteDelay
    /\ tracking' = s.tracking
    /\ initialPosition' = s.initialPosition
    /\ resetPositionOnHide' = s.resetPositionOnHide
    /\ options' = s.options
    /\ targetElement' = s.targetElement
    /\ currentStepIndex' = s.currentStepIndex
    /\ currentMessageIndex' = s.currentMessageIndex
    /\ currentMessages' = s.currentMessages
    /\ contentOwner' = s.contentOwner
    /\ isVisible' = s.isVisible
    /\ isPointingUp' = s.isPointingUp
    /\ manualDirection' = s.manualDirection
    /\ _hasShownBefore' = s._hasShownBefore
    /\ _autoplayPaused' = s._autoplayPaused
    /\ _messagesCompletedForStep' = s._messagesCompletedForStep
    /\ _messageCyclePaused' = s._messageCyclePaused
    /\ _messageCyclePausedByHide' = s._messageCyclePausedByHide
    /\ _wasAutoplayActiveBeforeHide' = s._wasAutoplayActiveBeforeHide
    /\ _autoplayTimeoutId' = s._autoplayTimeoutId
    /\ _messageIntervalId' = s._messageIntervalId
    /\ _hideOnCompleteTimeoutId' = s._hideOnCompleteTimeoutId
    /\ moveTimeout' = s.moveTimeout
    /\ _rafId' = s._rafId
    /\ _eventListeners' = s._eventListeners
    /\ _targetYHistory' = s._targetYHistory
    /\ _lastDirectionChangeTime' = s._lastDirectionChangeTime
    /\ timers' = s.timers
    /\ frames' = s.frames
    /\ page' = s.page
    /\ log' = s.log
    /\ hist' = s.hist

----------------------------------------------------------------------------
\* The event bus (on, off, _emit, getEventGroup, EVENT_GROUPS)

\* Pointy.EVENT_GROUPS, in the order Object.entries walks it
EVENT_GROUPS ==
    << [ group |-> "lifecycle",
         events |-> { "beforeShow", "show", "beforeHide", "hide", "destroy",
                      "beforeRestart", "restart", "beforeReset", "reset" } ],
       [ group |-> "navigation",
         events |-> { "beforeStepChange", "stepChange", "next", "prev",
                      "complete" } ],
       [ group |-> "animation",
         events |-> { "animationStart", "animationEnd", "move", "moveComplete",
                      "introAnimationStart", "introAnimationEnd" } ],
       [ group |-> "content",
         events |-> { "contentSet", "messagesSet", "messageChange" } ],
       [ group |-> "messageCycle",
         events |-> { "messageCycleStart", "messageCycleStop",
                      "messageCyclePause", "messageCycleResume",
                      "messageCycleComplete" } ],
       [ group |-> "pointing",
         events |-> { "beforePointTo", "pointTo", "pointToComplete" } ],
       [ group |-> "tracking",
         events |-> { "track", "targetChange", "trackingChange",
                      "trackingFpsChange" } ],
       [ group |-> "autoplay",
         events |-> { "autoplayStart", "autoplayStop", "autoplayPause",
                      "autoplayResume", "autoplayNext", "autoplayComplete",
                      "autoHide", "autoplayChange",
                      "autoplayWaitForMessagesChange" } ] >>

\* The event names the engine emits that end in 'Change': event.endsWith('Change')
endsWithChange(event) ==
    event \in { "beforeStepChange", "stepChange", "messageChange",
                "targetChange", "trackingChange", "trackingFpsChange",
                "autoplayChange", "autoplayWaitForMessagesChange",
                "resetOnCompleteChange", "floatingAnimationChange",
                "messageIntervalChange", "offsetChange",
                "animationDurationChange", "introFadeDurationChange",
                "bubbleFadeDurationChange", "initialPositionChange",
                "initialPositionOffsetChange", "easingChange",
                "messageTransitionDurationChange", "pointerSvgChange",
                "hideOnCompleteChange", "hideOnCompleteDelayChange" }

\* an event that is found in no group
noGroup(event) == "none"

\* Pointy.getEventGroup: the first group listing the event, else 'config' for
\* a name ending in 'Change', else null ("none")
getEventGroup(event) ==
    Let({ i \in 1..Len(EVENT_GROUPS) : event \in EVENT_GROUPS[i].events }, LAMBDA hits :
        IF hits # {}
        THEN EVENT_GROUPS[CHOOSE i \in hits : \A j \in hits : i <= j].group
        ELSE IF endsWithChange(event) THEN "config" ELSE "none")

\* an event's data with no field the model keeps: {}
NoData == << >>

\* this._eventListeners[key], or no handler when the key is absent
listenersOf(s, key) ==
    IF key \in DOMAIN s._eventListeners THEN s._eventListeners[key] ELSE << >>

\* { ...data, type: event, pointy: this }: the event's name overrides a
\* 'type' field of the data, the instance a 'pointy' field
eventData(event, data) ==
    [ k \in (DOMAIN data) \cup {"type", "pointy"} |->
        IF k = "type" THEN event
        ELSE IF k = "pointy" THEN "this" ELSE data[k] ]

\* the handlers that throw when they are called
ThrowingHandlers == { "bad" }

\* callback(eventData): the handler returns or throws
callOutcome(handler) ==
    IF handler \in ThrowingHandlers THEN "throws" ELSE "returns"

\* a call with no catch clause around it: what the handler throws escapes
noCatch(outcome) == IF outcome = "throws" THEN "escaped" ELSE "returned"

\* try { callback(eventData) } catch (e) { console.error(...) }: what the
\* handler throws is written to the console and goes no further
tryCatch(outcome) == IF outcome = "throws" THEN "logged" ELSE "returned"

\* an exception leaves the running operation in state s: nothing the
\* operation would have done after this point is done
throw(s) ==
    IF s.uncaught.on THEN s
    ELSE [ s EXCEPT !.uncaught = [ on |-> TRUE, at |-> s ] ]

\* the state an operation leaves: where it returned, or where it was left
completed(r) ==
    IF r.uncaught.on THEN [ r.uncaught.at EXCEPT !.hist.threw = TRUE ] ELSE r

\* listeners.forEach(callback => try ... catch ...): the handlers called, up
\* to one whose exception escapes
called(listeners) ==
    Let({ i \in 1..Len(listeners) :
            tryCatch(callOutcome(listeners[i])) = "escaped" }, LAMBDA escapes :
        IF escapes = {} THEN listeners
        ELSE SubSeq(listeners, 1, CHOOSE i \in escapes : \A j \in escapes : i <= j))

\* _emit: exact-name handlers, then the group's, then '*' and 'all'
_emit(s, event, data) ==
    Let(getEventGroup(event), LAMBDA group :
    Let(
                 listenersOf(s, event)
                 \o (IF group # "none" THEN listenersOf(s, group) ELSE << >>)
                 \o listenersOf(s, "*") \o listenersOf(s, "all")
    , LAMBDA listeners :
    Let(called(listeners), LAMBDA to :
    Let([ s EXCEPT !.log = Append(@,
            [ name |-> event, payload |-> eventData(event, data), to |-> to,
              errors |-> SelectSeq(to, LAMBDA h :
                             tryCatch(callOutcome(h)) = "logged") ]) ]
    , LAMBDA r :
        IF \E i \in 1..Len(to) : tryCatch(callOutcome(to[i])) = "escaped"
        THEN throw(r) ELSE r))))

\* the option callbacks onStepChange / onComplete, logged when invoked
callback(s, name) ==
    [ s EXCEPT !.log = Append(@, [ name |-> name,
                                   payload |-> [ type |-> name,
                                                 callback |-> TRUE ],
                                   to |-> << >>, errors |-> << >> ]) ]

\* on(event, callback)
on(s, event, handler) ==
    [ s EXCEPT !._eventListeners =
        [ k \in (DOMAIN @) \cup {event} |->
            IF k \in DOMAIN @ /\ k # event THEN @[k]
            ELSE Append(listenersOf(s, event), handler) ] ]

\* the listeners left as they are
keepListeners(listeners) == listeners

\* this._eventListeners = {} (destroy, 892)
clearListeners(listeners) == << >>

----------------------------------------------------------------------------
\* The host's timers.  A pending timer is a record
\*   [ id, kind, rem, period, data ]
\* rem is the time left before it is due, period > 0 marks a setInterval,
\* data is what the callback's closure captured.  timers is in creation
\* order, which is the order in which timers due together run.

timerIds(s) == { s.timers[i].id : i \in 1..Len(s.timers) }

\* an id no pending timer has and no handle field still holds: the host
\* never hands the same id out twice, so a stale handle cancels nothing
freshId(s) ==
    Let(
                timerIds(s) \cup { s._autoplayTimeoutId, s._messageIntervalId,
                                   s._hideOnCompleteTimeoutId, s.moveTimeout }
    , LAMBDA used :
        CHOOSE i \in 1..(Cardinality(used) + 1) :
            /\ i \notin used
            /\ \A j \in 1..(i - 1) : j \in used)

\* the id the next setTimeout / setInterval returns
nextTimerId(s) == freshId(s)

setTimeout(s, kind, delay, data) ==
    [ s EXCEPT !.timers = Append(@, [ id |-> freshId(s), kind |-> kind,
                                      rem |-> IF delay > 0 THEN delay ELSE 0,
                                      period |-> 0, data |-> data ]) ]

setInterval(s, kind, delay, data) ==
    [ s EXCEPT !.timers = Append(@, [ id |-> freshId(s), kind |-> kind,
                                      rem |-> IF delay > 0 THEN delay ELSE 0,
                                      period |-> delay, data |-> data ]) ]

\* clearTimeout / clearInterval: the timer with that id, if still pending
clearTimeout(s, id) ==
    [ s EXCEPT !.timers = SelectSeq(@, LAMBDA t : t.id # id) ]

\* requestAnimationFrame(this._trackPosition): frames is the set of pending
\* frame-callback ids
freshFrame(s) ==
    Let(s.frames, LAMBDA used :
        CHOOSE i \in 1..(Cardinality(used) + 1) :
            /\ i \notin used
            /\ \A j \in 1..(i - 1) : j \in used)

cancelAnimationFrame(s, id) == [ s EXCEPT !.frames = @ \ {id} ]

----------------------------------------------------------------------------
\* Tracking loop and position update

NoDirection == "null"

\* Date.now() when the instance is constructed: long after time 0, the
\* initial _lastDirectionChangeTime
StartTime == 1000

\* the page keeps the target where it is: every sample of its position is
\* the same, deltaY is 0 and no direction is inferred from it
AtRest == -1

historyWindow == 200

velocityThreshold == 30

debounceTime == 300

Abs(x) == IF x < 0 THEN 0 - x ELSE x

\* an inference that changes the direction whenever the displacement is
\* large, however recent the last change
noDebounce(s) ==
    LET now == s.page.now
        kept == SelectSeq(Append(s._targetYHistory,
                                 [ y |-> s.page.targetY, time |-> now ]),
                          LAMBDA h : now - h.time < historyWindow)
        deltaY == kept[Len(kept)].y - kept[1].y
    IN  IF /\ Len(kept) >= 2
           /\ Abs(deltaY) > velocityThreshold
           /\ (deltaY < 0) # s.isPointingUp
        THEN [ s EXCEPT !._targetYHistory = kept,
                        !.isPointingUp = deltaY < 0,
                        !._lastDirectionChangeTime = now ]
        ELSE [ s EXCEPT !._targetYHistory = kept ]

\* the inference of updatePosition (586-617): the sample is pushed, the
\* samples of the last 200 ms are kept, and with two samples or more a
\* displacement over 30 px, more than 300 ms after the last change, sets
\* the direction of the movement
inferDirection(s) ==
    LET currentTargetY == s.page.targetY
        now == s.page.now
        kept == SelectSeq(Append(s._targetYHistory,
                                 [ y |-> currentTargetY, time |-> now ]),
                          LAMBDA h : now - h.time < historyWindow)
        deltaY == kept[Len(kept)].y - kept[1].y
        newDirection == deltaY < 0
    IN  IF /\ Len(kept) >= 2
           /\ Abs(deltaY) > velocityThreshold
           /\ now - s._lastDirectionChangeTime > debounceTime
           /\ newDirection # s.isPointingUp
        THEN [ s EXCEPT !._targetYHistory = kept,
                        !.isPointingUp = newDirection,
                        !._lastDirectionChangeTime = now ]
        ELSE [ s EXCEPT !._targetYHistory = kept ]

\* updatePosition (575-646): without a target nothing happens; a manual
\* direction decides isPointingUp; otherwise the direction is inferred from
\* the target's movement. On a page whose targets are at rest the samples
\* are all alike and are not recorded.
updatePosition(s) ==
    IF s.targetElement = NoElement THEN s
    ELSE IF s.manualDirection # NoDirection
         THEN [ s EXCEPT !.isPointingUp = (s.manualDirection = "up") ]
         ELSE IF s.page.targetY = AtRest THEN s
         ELSE inferDirection(s)

\* _trackPosition (538-559); the FPS limiter lets every frame through
_trackPosition(s) ==
    IF ~s.isVisible \/ s.targetElement = NoElement
    THEN [ s EXCEPT !._rafId = NoTimer ]
    ELSE Let(
                   _emit(updatePosition(s), "track",
                         [ target |-> s.targetElement ])
         , LAMBDA s1 :
         Let(freshFrame(s1), LAMBDA id :
             [ s1 EXCEPT !.frames = @ \cup {id}, !._rafId = id ]))

\* _startTracking (561-566)
_startTracking(s) ==
    IF ~s.tracking THEN s
    ELSE IF s._rafId = NoTimer THEN _trackPosition(s) ELSE s

\* _stopTracking (568-573)
_stopTracking(s) ==
    IF s._rafId # NoTimer
    THEN [ cancelAnimationFrame(s, s._rafId) EXCEPT !._rafId = NoTimer ]
    ELSE s

----------------------------------------------------------------------------
\* Autoplay scheduler, first half (the half the message cycle calls)

\* the autoplay timer left pending
autoplayLeftRunning(s) == s

\* _stopAutoplay (1819-1824)
_stopAutoplay(s) ==
    IF s._autoplayTimeoutId # NoTimer
    THEN [ clearTimeout(s, s._autoplayTimeoutId)
             EXCEPT !._autoplayTimeoutId = NoTimer ]
    ELSE s

\* isAutoplayActive (1870-1872): autoplay && autoplayEnabled && !_autoplayPaused
isAutoplayActive(s) ==
    Truthy(s.autoplay) /\ s.autoplayEnabled /\ ~s._autoplayPaused

\* the brief pause after the last message (1805)
AfterMessagesDelay == 300

\* the end of the messages schedules no advance
noAdvanceAfterMessages(s) == s

\* _scheduleAutoplayAfterMessages (1801-1813)
_scheduleAutoplayAfterMessages(s) ==
    IF ~Truthy(s.autoplay) \/ ~s.autoplayEnabled \/ s._autoplayPaused
       \/ ~s.isVisible
    THEN s
    ELSE [ setTimeout(s, "autoplayAfterMessages", AfterMessagesDelay,
                      [ afterMessages |-> TRUE ])
             EXCEPT !._autoplayTimeoutId = nextTimerId(s) ]

\* the duration _scheduleAutoplay waits (1785): the step's own, else autoplay
stepDuration(s) ==
    Let(s.steps[s.currentStepIndex + 1], LAMBDA step :
        IF step.duration # Undefined THEN step.duration ELSE s.autoplay)

\* _scheduleAutoplay (1772-1795)
_scheduleAutoplay(s) ==
    IF ~Truthy(s.autoplay) \/ ~s.autoplayEnabled \/ s._autoplayPaused
       \/ ~s.isVisible
    THEN s
    ELSE Let(
                 Len(s.currentMessages) > 1 /\ Truthy(s.messageInterval)
         , LAMBDA hasMultipleMessages :
             IF s.autoplayWaitForMessages /\ hasMultipleMessages THEN s
             ELSE IF s.currentStepIndex >= Len(s.steps)
             THEN \* step is undefined: step.duration is a TypeError
                  throw(s)
             ELSE
             Let(stepDuration(s), LAMBDA duration :
                  IF Truthy(duration) /\ duration > 0
                  THEN [ setTimeout(s, "autoplay", duration,
                                    [ duration |-> duration ])
                           EXCEPT !._autoplayTimeoutId = nextTimerId(s) ]
                  ELSE s))

----------------------------------------------------------------------------
\* Message cursor

\* _stopMessageCycle (1143-1149)
_stopMessageCycle(s) ==
    IF s._messageIntervalId # NoTimer
    THEN _emit([ clearTimeout(s, s._messageIntervalId)
                   EXCEPT !._messageIntervalId = NoTimer ],
               "messageCycleStop",
               [ currentIndex |-> s.currentMessageIndex ])
    ELSE s

\* the index after `index`, with no wrap at the end
pastTheEnd(index, n) == index + 1

\* (index + 1) % n (1235)
nextMessageIndex(index, n) == (index + 1) % n

\* an index that stays at the first message
noWrapBack(index, n) == IF index = 0 THEN 0 ELSE index - 1

\* (index - 1 + n) % n (1258)
prevMessageIndex(index, n) == (index - 1 + n) % n

\* return value: what the method hands to its caller
return(s, value) == [ s EXCEPT !.hist.returned = value ]

\* nextMessage (1231-1248)
nextMessage(s, isAuto) ==
    IF Len(s.currentMessages) <= 1 THEN return(s, "false")
    ELSE Let(
                   nextMessageIndex(s.currentMessageIndex,
                                    Len(s.currentMessages))
         , LAMBDA to :
         Let(
             _emit([ s EXCEPT !.currentMessageIndex = to ], "messageChange",
                   [ fromIndex |-> s.currentMessageIndex, toIndex |-> to,
                     total |-> Len(s.currentMessages), isAuto |-> isAuto ])
         , LAMBDA s1 :
             return(s1, "true")))

\* prevMessage (1254-1270)
prevMessage(s) ==
    IF Len(s.currentMessages) <= 1 THEN return(s, "false")
    ELSE Let(
                   prevMessageIndex(s.currentMessageIndex,
                                    Len(s.currentMessages))
         , LAMBDA to :
         Let(
             _emit([ s EXCEPT !.currentMessageIndex = to ], "messageChange",
                   [ fromIndex |-> s.currentMessageIndex, toIndex |-> to,
                     total |-> Len(s.currentMessages) ])
         , LAMBDA s1 :
             return(s1, "true")))

\* the message index set with no look at the range
uncheckedGoToMessage(s, index) ==
    _emit([ s EXCEPT !.currentMessageIndex = index ], "messageChange", NoData)

\* goToMessage (1276-1290)
goToMessage(s, index) ==
    IF index < 0 \/ index >= Len(s.currentMessages) THEN s
    ELSE _emit([ s EXCEPT !.currentMessageIndex = index ], "messageChange",
               [ fromIndex |-> s.currentMessageIndex, toIndex |-> index,
                 total |-> Len(s.currentMessages) ])

\* _startMessageCycle (1118-1137): the interval is started without a look at
\* one that may be running; its handle overwrites _messageIntervalId
_startMessageCycle(s) ==
    Let([ s EXCEPT !._messagesCompletedForStep = FALSE ], LAMBDA s1 :
    Let(
              [ setInterval(s1, "messageCycle", s.messageInterval,
                            [ interval |-> s.messageInterval ])
                  EXCEPT !._messageIntervalId = nextTimerId(s1),
                         !.hist.cycle = [ ticks |-> 0,
                                          fromZero |-> s.currentMessageIndex = 0,
                                          age |-> IF s.hist.cycle.forStep
                                                  THEN s.hist.cycle.age
                                                  ELSE 0,
                                          fresh |-> TRUE,
                                          forStep |-> TRUE ] ]
    , LAMBDA s2 :
        _emit(s2, "messageCycleStart",
              [ interval |-> s.messageInterval,
                totalMessages |-> Len(s.currentMessages) ])))

\* the test the interval callback makes before advancing (1122-1124)
cycleStopsHere(s) ==
    /\ s.currentMessageIndex = Len(s.currentMessages) - 1
    /\ Truthy(s.autoplay)
    /\ s.autoplayWaitForMessages

\* the callback of the message-cycle interval (1120-1135)
messageCycleTick(s) ==
    IF cycleStopsHere(s)
    THEN Let(_stopMessageCycle(s), LAMBDA s1 :
         Let([ s1 EXCEPT !._messagesCompletedForStep = TRUE ], LAMBDA s2 :
         Let(
                   _emit(s2, "messageCycleComplete",
                         [ stepIndex |-> s.currentStepIndex,
                           totalMessages |-> Len(s.currentMessages) ])
         , LAMBDA s3 :
             _scheduleAutoplayAfterMessages(s3))))
    ELSE nextMessage(s, TRUE)

\* _applyMessages (1084-1112); contentOwner is the step whose content array
\* currentMessages is (the same array, not a copy), 0 when it is a fresh one
_applyMessages(s, content, owner, fromStepChange) ==
    Let(s._messageIntervalId # NoTimer, LAMBDA wasRunning :
    Let(_stopMessageCycle(s), LAMBDA s1 :
    Let(
              [ s1 EXCEPT !.currentMessages = normalizeContent(content),
                          !.contentOwner = IF content.isArray THEN owner ELSE 0,
                          !.currentMessageIndex = 0 ]
    , LAMBDA s2 :
    Let(
              IF fromStepChange /\ Truthy(s2.messageInterval)
                 /\ Len(s2.currentMessages) > 1
              THEN _startMessageCycle(s2)
              ELSE IF wasRunning /\ Len(s2.currentMessages) > 1
                   THEN [ s2 EXCEPT !._messageCyclePaused = TRUE ]
                   ELSE s2
    , LAMBDA s3 :
        _emit(s3, "messagesSet",
              [ total |-> Len(s3.currentMessages),
                cyclePaused |-> s3._messageCyclePaused ])))))

----------------------------------------------------------------------------
\* Tour state machine: visibility

\* _getInitialPosition (1448-1510), the part the state depends on: only the
\* 'first-step' preset with a resolvable first target yields a direction
initialDirection(s) ==
    IF s.initialPosition = "first-step" /\ Len(s.steps) > 0
       /\ getTargetElement(s.steps[1].target) # NoElement
    THEN [ known |-> TRUE, isPointingUp |-> s.steps[1].direction # "down" ]
    ELSE [ known |-> FALSE, isPointingUp |-> TRUE ]

\* show: cancel any pending auto-hide (651-655)
cancelAutoHide(s) ==
    IF s._hideOnCompleteTimeoutId # NoTimer
    THEN [ clearTimeout(s, s._hideOnCompleteTimeoutId)
             EXCEPT !._hideOnCompleteTimeoutId = NoTimer ]
    ELSE s

\* show: resume the message cycle (798-805)
resumeCycleOnShow(s) ==
    IF s._messageCyclePausedByHide /\ Truthy(s.messageInterval)
       /\ Len(s.currentMessages) > 1
    THEN [ _startMessageCycle(s) EXCEPT !._messageCyclePausedByHide = FALSE ]
    ELSE IF Truthy(s.messageInterval) /\ Len(s.currentMessages) > 1
            /\ s._messageIntervalId = NoTimer
         THEN _startMessageCycle(s)
         ELSE s

\* show: resume autoplay (807-811)
resumeAutoplayOnShow(s) ==
    IF s._wasAutoplayActiveBeforeHide
    THEN [ _scheduleAutoplay(s) EXCEPT !._wasAutoplayActiveBeforeHide = FALSE ]
    ELSE s

\* show (648-814)
show(s) ==
    Let(_emit(s, "beforeShow", [ target |-> s.targetElement ]), LAMBDA s1 :
    Let(cancelAutoHide(s1), LAMBDA s2 :
        IF ~s2._hasShownBefore
        THEN Let(s2.initialPosition = "first-step", LAMBDA isFirstStepStart :
             Let(initialDirection(s2), LAMBDA initialPos :
             Let(
                       [ s2 EXCEPT
                           !._hasShownBefore = TRUE,
                           !.isPointingUp =
                               IF isFirstStepStart /\ initialPos.known
                               THEN initialPos.isPointingUp ELSE @,
                           !.isVisible = TRUE ]
             , LAMBDA s3 :
             Let(
                       _emit(s3, "introAnimationStart",
                             [ duration |-> s3.introFadeDuration ])
             , LAMBDA s4 :
                 setTimeout(s4, "introFade", s4.introFadeDuration,
                            [ isFirstStepStart |-> isFirstStepStart ])))))
        ELSE Let(updatePosition([ s2 EXCEPT !.isVisible = TRUE ]), LAMBDA s3 :
     Let(_startTracking(s3), LAMBDA s4 :
     Let(resumeCycleOnShow(s4), LAMBDA s5 :
     Let(resumeAutoplayOnShow(s5), LAMBDA s6 :
                 _emit(s6, "show", [ target |-> s6.targetElement,
                                     isIntro |-> FALSE ])))))))

\* the intro's "start message cycle if multi-message" (739-741, 772-774)
startCycleAfterIntro(s) ==
    IF Truthy(s.messageInterval) /\ Len(s.currentMessages) > 1
       /\ s._messageIntervalId = NoTimer
    THEN _startMessageCycle(s)
    ELSE s

\* the callback show() schedules after introFadeDuration (708-782); the
\* bubble-fade timer of 732-736 only restores styles and is left out
introFadeDone(s, t) ==
    Let(_emit(s, "introAnimationEnd", NoData), LAMBDA s1 :
        IF t.data.isFirstStepStart
        THEN Let(_startTracking(s1), LAMBDA s2 :
             Let(startCycleAfterIntro(s2), LAMBDA s3 :
             Let(_scheduleAutoplay(s3), LAMBDA s4 :
                 _emit(s4, "show", [ target |-> s4.targetElement,
                                     isIntro |-> TRUE, isFirstStep |-> TRUE ]))))
        ELSE Let(updatePosition(s1), LAMBDA s2 :
     Let(_startTracking(s2), LAMBDA s3 :
     Let(
                       setTimeout(s3, "introMove", s3.animationDuration,
                                  NoData)
     , LAMBDA s4 :
                 _emit(s4, "show", [ target |-> s4.targetElement,
                                     isIntro |-> TRUE, isFirstStep |-> FALSE ])))))

\* the callback of 759-778, animationDuration after the intro fade
introMoveDone(s, t) == _scheduleAutoplay(startCycleAfterIntro(s))

\* hide that does not note an active autoplay
autoplayForgotten(s) == FALSE

\* hide: what show() is later told about autoplay (839)
autoplayActiveBeforeHide(s) ==
    Truthy(s.autoplay) /\ s.autoplayEnabled /\ ~s._autoplayPaused

\* hide (816-843)
hide(s) ==
    Let(_emit(s, "beforeHide", [ target |-> s.targetElement ]), LAMBDA s1 :
    Let(
              [ s1 EXCEPT !.isVisible = FALSE,
                          !._hasShownBefore =
                              IF s1.resetPositionOnHide THEN FALSE ELSE @ ]
    , LAMBDA s2 :
    Let(_stopTracking(s2), LAMBDA s3 :
    Let(
              IF s3._messageIntervalId # NoTimer
              THEN [ _stopMessageCycle(s3)
                       EXCEPT !._messageCyclePausedByHide = TRUE ]
              ELSE s3
    , LAMBDA s4 :
    Let(
              [ s4 EXCEPT !._wasAutoplayActiveBeforeHide =
                              autoplayActiveBeforeHide(s4) ]
    , LAMBDA s5 :
    Let(_stopAutoplay(s5), LAMBDA s6 :
        _emit(s6, "hide", [ target |-> s6.targetElement ])))))))

\* destroy (873-893); removing the container and the window listeners is DOM
destroy(s) ==
    Let(_emit(s, "destroy", NoData), LAMBDA s1 :
    Let(_stopTracking(s1), LAMBDA s2 :
    Let(cancelAutoHide(s2), LAMBDA s3 :
        [ s3 EXCEPT !._eventListeners = clearListeners(@) ])))

----------------------------------------------------------------------------
\* Tour state machine: navigation

\* a movement that leaves the earlier settle timer pending
settleLeftPending(s) == s

\* if (this.moveTimeout) clearTimeout(this.moveTimeout) (913, 1727, 2051)
cancelSettle(s) ==
    IF s.moveTimeout # NoTimer THEN clearTimeout(s, s.moveTimeout) ELSE s

\* the step index set with no look at the range
uncheckedGoToStep(s, index) == [ s EXCEPT !.currentStepIndex = index ]

\* goToStep (1697-1766)
goToStep(s, index) ==
    IF Len(s.steps) = 0 \/ index < 0 \/ index >= Len(s.steps) THEN s
    ELSE
    Let(_stopAutoplay(s), LAMBDA s1 :
    Let(s.currentStepIndex, LAMBDA previousIndex :
    Let(s.steps[index + 1], LAMBDA step :
    Let(
              [ s1 EXCEPT !._messagesCompletedForStep = FALSE,
                          !.currentStepIndex = index,
                          !.hist.cycle.forStep = FALSE ]
    , LAMBDA s2 :
    Let(
              _emit(s2, "beforeStepChange",
                    [ fromIndex |-> previousIndex, toIndex |-> index ])
    , LAMBDA s3 :
    Let([ s3 EXCEPT !.manualDirection = step.direction,
                    !._targetYHistory = << >> ], LAMBDA s4 :
    Let(cancelSettle(s4), LAMBDA s5 :
    Let(
              _emit(s5, "animationStart",
                    [ toTarget |-> getTargetElement(step.target),
                      type |-> "step", stepIndex |-> index ])
    , LAMBDA s6 :
    Let(
              [ setTimeout(s6, "stepSettle", s6.animationDuration,
                           [ index |-> index ])
                  EXCEPT !.moveTimeout = nextTimerId(s6) ]
    , LAMBDA s7 :
    Let(_emit(s7, "move", [ index |-> index ]), LAMBDA s8 :
    Let(_applyMessages(s8, step.content, index + 1, TRUE), LAMBDA s9 :
    Let(
               updatePosition([ s9 EXCEPT !.targetElement =
                                            getTargetElement(step.target) ])
    , LAMBDA s10 :
    Let(
               _emit(s10, "stepChange",
                     [ fromIndex |-> previousIndex, toIndex |-> index,
                       target |-> s10.targetElement ])
    , LAMBDA s11 :
        callback(s11, "onStepChange"))))))))))))))

\* the settle callback of goToStep (1736-1748)
stepSettleDone(s, t) ==
    Let(
              _emit(s, "moveComplete", [ index |-> t.data.index,
                                         target |-> s.targetElement ])
    , LAMBDA s1 :
    Let(
              _emit(s1, "animationEnd",
                    [ toTarget |-> s.targetElement, type |-> "step",
                      stepIndex |-> t.data.index ])
    , LAMBDA s2 :
        _scheduleAutoplay(s2)))

\* reset (899-940)
reset(s, goToFirstStep) ==
    Let(_emit(s, "beforeReset", [ currentStep |-> s.currentStepIndex ]), LAMBDA s1 :
    Let(_stopMessageCycle(s1), LAMBDA s2 :
    Let(cancelAutoHide(s2), LAMBDA s3 :
    Let(cancelSettle(s3), LAMBDA s4 :
    Let(
              IF goToFirstStep /\ Len(s4.steps) > 0
              THEN [ s4 EXCEPT
                       !.currentStepIndex = 0,
                       !.targetElement = getTargetElement(s4.steps[1].target),
                       !.currentMessages =
                           normalizeContent(s4.steps[1].content),
                       !.contentOwner =
                           IF s4.steps[1].content.isArray THEN 1 ELSE 0,
                       !.currentMessageIndex = 0,
                       !.hist.cycle.forStep = FALSE ]
              ELSE s4
    , LAMBDA s5 :
        [ setTimeout(s5, "resetSettle", s5.animationDuration, NoData)
            EXCEPT !.moveTimeout = nextTimerId(s5) ])))))

\* the settle callback of reset (935-939)
resetSettleDone(s, t) ==
    _emit([ s EXCEPT !._hasShownBefore = FALSE ], "reset",
          [ stepIndex |-> s.currentStepIndex ])

\* the delay restart() leaves for the hide transition (865)
RestartDelay == 50

\* the body restart() runs at once when hidden, else after RestartDelay
\* (862-864, 867-869)
restartNow(s) ==
    Let(goToStep(s, 0), LAMBDA s1 :
    Let(show(s1), LAMBDA s2 :
        _emit(s2, "restart", NoData)))

\* restart (849-871)
restart(s) ==
    Let(_emit(s, "beforeRestart", NoData), LAMBDA s1 :
    Let([ s1 EXCEPT !._hasShownBefore = FALSE ], LAMBDA s2 :
        IF s2.isVisible
        THEN Let(_stopMessageCycle(_stopTracking(s2)), LAMBDA s3 :
             Let([ s3 EXCEPT !.isVisible = FALSE ], LAMBDA s4 :
                 setTimeout(s4, "restart", RestartDelay, NoData)))
        ELSE restartNow(s2)))

\* a delay of 0 taken for no delay configured
zeroIsUnset(s) ==
    IF s.hideOnCompleteDelay # Null /\ s.hideOnCompleteDelay # 0
    THEN s.hideOnCompleteDelay
    ELSE s.animationDuration

\* the delay before the auto-hide, without the reset's animation (1980, 1990)
hideDelayOf(s) ==
    IF s.hideOnCompleteDelay # Null THEN s.hideOnCompleteDelay
    ELSE s.animationDuration

\* a completion that schedules no auto-hide
withoutAutoHide(s, wait, delay, source) == s

\* the auto-hide timer of next() (1982-1985, 1992-1995)
scheduleAutoHide(s, wait, delay, source) ==
    [ setTimeout(s, "autoHide", wait, [ delay |-> delay, source |-> source ])
        EXCEPT !._hideOnCompleteTimeoutId = nextTimerId(s) ]

\* the callback of the auto-hide timer (1982-1985, 1992-1995)
autoHideDone(s, t) ==
    _emit(hide(s), "autoHide", [ delay |-> t.data.delay,
                                 source |-> t.data.source ])

\* an index two steps ahead
skipStepIndex(s) == s.currentStepIndex + 2

\* the index next() moves to (1959)
nextStepIndex(s) == s.currentStepIndex + 1

\* the index prev() moves to (2010)
prevStepIndex(s) == s.currentStepIndex - 1

\* next (1954-2003)
next(s) ==
    IF Len(s.steps) = 0 THEN s
    ELSE IF s.currentStepIndex < Len(s.steps) - 1
    THEN goToStep(_emit(s, "next", [ fromIndex |-> s.currentStepIndex,
                                    toIndex |-> s.currentStepIndex + 1 ]),
                  nextStepIndex(s))
    ELSE
    Let(isAutoplayActive(s), LAMBDA wasAutoplayActive :
    Let(IF wasAutoplayActive THEN "autoplay" ELSE "manual", LAMBDA source :
    Let(
              _emit(s, "complete", [ totalSteps |-> Len(s.steps),
                                     source |-> source ])
    , LAMBDA s1 :
    Let(
              IF wasAutoplayActive
              THEN _emit([ _stopAutoplay(s1) EXCEPT !.autoplayEnabled = FALSE ],
                         "autoplayComplete", [ totalSteps |-> Len(s.steps) ])
              ELSE s1
    , LAMBDA s2 :
    Let(
              IF s2.resetOnComplete
              THEN Let(reset(s2, TRUE), LAMBDA r :
                       IF r.hideOnComplete
                       THEN scheduleAutoHide(r,
                                r.animationDuration + hideDelayOf(r),
                                hideDelayOf(r), source)
                       ELSE r)
              ELSE IF s2.hideOnComplete
                   THEN scheduleAutoHide(s2, hideDelayOf(s2), hideDelayOf(s2),
                                         source)
                   ELSE s2
    , LAMBDA s3 :
        callback(s3, "onComplete"))))))

\* prev (2005-2012)
prev(s) ==
    IF Len(s.steps) = 0 THEN s
    ELSE IF s.currentStepIndex > 0
    THEN goToStep(_emit(s, "prev", [ fromIndex |-> s.currentStepIndex,
                                    toIndex |-> s.currentStepIndex - 1 ]),
                  prevStepIndex(s))
    ELSE s

\* pointTo called without content: content === undefined
NoContent == [ isArray |-> FALSE, items |-> "undefined" ]

\* pointTo (2029-2093)
pointTo(s, target, content, direction) ==
    Let(getTargetElement(target), LAMBDA toTarget :
    Let(
              _emit(s, "beforePointTo",
                    [ target |-> toTarget,
                      direction |-> IF direction # NoDirection
                                    THEN direction ELSE "auto" ])
    , LAMBDA s1 :
    Let([ s1 EXCEPT !.manualDirection = direction,
                    !._targetYHistory = << >> ], LAMBDA s2 :
    Let(cancelSettle(s2), LAMBDA s3 :
    Let(
              _emit(s3, "animationStart",
                    [ toTarget |-> toTarget, type |-> "pointTo" ])
    , LAMBDA s4 :
    Let([ s4 EXCEPT !.targetElement = toTarget ], LAMBDA s5 :
    Let(
              IF content # NoContent
              THEN _applyMessages(s5, content, 0, FALSE) ELSE s5
    , LAMBDA s6 :
    Let(updatePosition(s6), LAMBDA s7 :
    Let(IF s7.isPointingUp THEN "up" ELSE "down", LAMBDA resolvedDirection :
    Let(
              [ setTimeout(s7, "pointToSettle", s7.animationDuration,
                           [ direction |-> resolvedDirection ])
                  EXCEPT !.moveTimeout = nextTimerId(s7) ]
    , LAMBDA s8 :
    Let(
              _emit(s8, "pointTo", [ target |-> s8.targetElement,
                                     direction |-> resolvedDirection ])
    , LAMBDA s9 :
        IF ~s9.isVisible THEN show(s9) ELSE s9)))))))))))

\* the settle callback of pointTo (2076-2085)
pointToSettleDone(s, t) ==
    Let(
              _emit(s, "pointToComplete",
                    [ target |-> s.targetElement,
                      direction |-> t.data.direction ])
    , LAMBDA s1 :
        _emit(s1, "animationEnd",
              [ toTarget |-> s.targetElement, type |-> "pointTo" ]))

----------------------------------------------------------------------------
\* Autoplay scheduler, second half

\* the callback of the autoplay timer (1788-1793)
autoplayDone(s, t) ==
    IF ~s._autoplayPaused /\ s.isVisible /\ s.autoplayEnabled
    THEN next(_emit(s, "autoplayNext", [ fromIndex |-> s.currentStepIndex,
                                         duration |-> t.data.duration ]))
    ELSE s

\* the callback of the after-messages timer (1807-1812)
autoplayAfterMessagesDone(s, t) ==
    IF ~s._autoplayPaused /\ s.isVisible /\ s._messagesCompletedForStep
    THEN next(_emit(s, "autoplayNext", [ fromIndex |-> s.currentStepIndex,
                                         afterMessages |-> TRUE ]))
    ELSE s

\* startAutoplay (1829-1835)
startAutoplay(s) ==
    IF ~Truthy(s.autoplay) THEN s
    ELSE _scheduleAutoplay(
             _emit([ s EXCEPT !.autoplayEnabled = TRUE,
                              !._autoplayPaused = FALSE ],
                   "autoplayStart", NoData))

\* stopAutoplay (1840-1845)
stopAutoplay(s) ==
    _emit([ _stopAutoplay(s) EXCEPT !.autoplayEnabled = FALSE,
                                    !._autoplayPaused = FALSE ],
          "autoplayStop", NoData)

\* pauseAutoplay (1850-1854)
pauseAutoplay(s) ==
    _emit([ _stopAutoplay(s) EXCEPT !._autoplayPaused = TRUE ],
          "autoplayPause", NoData)

\* resumeAutoplay (1859-1864)
resumeAutoplay(s) ==
    IF ~s._autoplayPaused THEN s
    ELSE _scheduleAutoplay(_emit([ s EXCEPT !._autoplayPaused = FALSE ],
                                 "autoplayResume", NoData))

----------------------------------------------------------------------------
\* Message cycle controls and content setters

\* pauseMessageCycle (1154-1161)
pauseMessageCycle(s) ==
    IF s._messageIntervalId # NoTimer
    THEN _emit([ clearTimeout(s, s._messageIntervalId)
                   EXCEPT !._messageIntervalId = NoTimer,
                          !._messageCyclePaused = TRUE ],
               "messageCyclePause",
               [ currentIndex |-> s.currentMessageIndex ])
    ELSE s

\* resumeMessageCycle (1167-1175)
resumeMessageCycle(s) ==
    IF s._messageCyclePaused /\ Truthy(s.messageInterval)
       /\ Len(s.currentMessages) > 1
    THEN return(_emit(_startMessageCycle(
                          [ s EXCEPT !._messageCyclePaused = FALSE ]),
                      "messageCycleResume",
                      [ currentIndex |-> s.currentMessageIndex ]), "true")
    ELSE return(s, "false")

\* startMessageCycle (1182-1195); interval Undefined is the call without one
startMessageCycle(s, interval) ==
    IF s._messageIntervalId # NoTimer THEN return(s, "false")
    ELSE IF Len(s.currentMessages) <= 1 THEN return(s, "false")
    ELSE Let(
                   IF interval # Undefined
                   THEN [ s EXCEPT !.messageInterval = interval ] ELSE s
         , LAMBDA s1 :
             IF ~Truthy(s1.messageInterval) THEN return(s1, "false")
             ELSE return(_startMessageCycle([ s1 EXCEPT
                                                !._messageCyclePaused = FALSE ]),
                         "true"))

\* stopMessageCycle (1201-1208)
stopMessageCycle(s) ==
    IF s._messageIntervalId # NoTimer
    THEN return([ _stopMessageCycle(s) EXCEPT !._messageCyclePaused = FALSE ],
                "true")
    ELSE return(s, "false")

\* steps with the content array of step `owner` written at `index`: the
\* array currentMessages is, when it is a step's (1315)
writeThrough(s, index, message) ==
    IF s.contentOwner # 0
    THEN [ s EXCEPT !.steps[s.contentOwner].content.items[index + 1] = message ]
    ELSE s

\* setMessage (1313-1331)
setMessage(s, message) ==
    Let(
              writeThrough(
                  [ s EXCEPT !.currentMessages =
                      IF s.currentMessageIndex < Len(@)
                      THEN [ @ EXCEPT ![s.currentMessageIndex + 1] = message ]
                      ELSE Append(@, message) ],
                  s.currentMessageIndex, message)
    , LAMBDA s1 :
        _emit(s1, "messageUpdate",
              [ index |-> s.currentMessageIndex, message |-> message,
                total |-> Len(s1.currentMessages) ]))

\* setMessages (1338-1368)
setMessages(s, content, animate) ==
    Let(s._messageIntervalId # NoTimer, LAMBDA wasRunning :
    Let(
              IF animate THEN _applyMessages(s, content, 0, FALSE)
              ELSE Let(_stopMessageCycle(s), LAMBDA a :
                   Let(
                            [ a EXCEPT
                                !.currentMessages = normalizeContent(content),
                                !.contentOwner = 0,
                                !.currentMessageIndex = 0 ]
                   , LAMBDA b :
                   Let(updatePosition(b), LAMBDA c :
                       IF wasRunning /\ Len(c.currentMessages) > 1
                       THEN [ c EXCEPT !._messageCyclePaused = TRUE ]
                       ELSE c)))
    , LAMBDA s1 :
        _emit(s1, "messagesSet",
              [ total |-> Len(s1.currentMessages), animated |-> animate,
                cyclePaused |-> s1._messageCyclePaused ])))

\* updateTarget (1388-1393)
updateTarget(s, newTarget) ==
    _emit(updatePosition([ s EXCEPT !.targetElement =
                                      getTargetElement(newTarget) ]),
          "targetChange", [ from |-> s.targetElement,
                            to |-> getTargetElement(newTarget) ])

----------------------------------------------------------------------------
\* The setter family.  The fields no other method reads (easing, the fade and
\* transition durations, the offsets, floatingAnimation, trackingFps,
\* initialPositionOffset, pointerSvg) are the record `options`.

\* the common shape of a plain setter: return when the value is the current
\* one, else store it and emit <field>Change {from, to}
changeOption(s, field, value, event) ==
    IF sameValue(s.options[field], value) THEN s
    ELSE _emit([ s EXCEPT !.options[field] = value ], event,
               [ from |-> s.options[field], to |-> value ])

\* setEasing (1615-1622)
setEasing(s, easing) == changeOption(s, "easing", easing, "easingChange")

\* setBubbleFadeDuration (1435-1442)
setBubbleFadeDuration(s, duration) ==
    changeOption(s, "bubbleFadeDuration", duration, "bubbleFadeDurationChange")

\* setMessageTransitionDuration (1628-1634)
setMessageTransitionDuration(s, duration) ==
    changeOption(s, "messageTransitionDuration", duration,
                 "messageTransitionDurationChange")

\* setFloatingAnimation (958-971)
setFloatingAnimation(s, enabled) ==
    changeOption(s, "floatingAnimation", enabled, "floatingAnimationChange")

\* setTrackingFps (1004-1010)
setTrackingFps(s, fps) ==
    changeOption(s, "trackingFps", fps, "trackingFpsChange")

\* setInitialPositionOffset (1589-1595)
setInitialPositionOffset(s, offset) ==
    changeOption(s, "initialPositionOffset", offset,
                 "initialPositionOffsetChange")

\* setPointerSvg (1640-1647)
setPointerSvg(s, svg) == changeOption(s, "pointerSvg", svg, "pointerSvgChange")

\* setOffset (1395-1404)
setOffset(s, offsetX, offsetY) ==
    IF sameValue(s.options.offsetX, offsetX)
       /\ sameValue(s.options.offsetY, offsetY)
    THEN s
    ELSE _emit(updatePosition([ s EXCEPT !.options.offsetX = offsetX,
                                         !.options.offsetY = offsetY ]),
               "offsetChange",
               [ from |-> << s.options.offsetX, s.options.offsetY >>,
                 to |-> << offsetX, offsetY >> ])

\* setAnimationDuration (1410-1417)
setAnimationDuration(s, duration) ==
    IF sameValue(s.animationDuration, duration) THEN s
    ELSE _emit([ s EXCEPT !.animationDuration = duration ],
               "animationDurationChange",
               [ from |-> s.animationDuration, to |-> duration ])

\* setIntroFadeDuration (1423-1429)
setIntroFadeDuration(s, duration) ==
    IF sameValue(s.introFadeDuration, duration) THEN s
    ELSE _emit([ s EXCEPT !.introFadeDuration = duration ],
               "introFadeDurationChange",
               [ from |-> s.introFadeDuration, to |-> duration ])

\* setResetOnComplete (946-952)
setResetOnComplete(s, value) ==
    IF sameValue(s.resetOnComplete, value) THEN s
    ELSE _emit([ s EXCEPT !.resetOnComplete = value ],
               "resetOnCompleteChange",
               [ from |-> s.resetOnComplete, to |-> value ])

\* setHideOnComplete (1934-1940)
setHideOnComplete(s, value) ==
    IF sameValue(s.hideOnComplete, value) THEN s
    ELSE _emit([ s EXCEPT !.hideOnComplete = value ], "hideOnCompleteChange",
               [ from |-> s.hideOnComplete, to |-> value ])

\* setHideOnCompleteDelay (1946-1952)
setHideOnCompleteDelay(s, delay) ==
    IF sameValue(s.hideOnCompleteDelay, delay) THEN s
    ELSE _emit([ s EXCEPT !.hideOnCompleteDelay = delay ],
               "hideOnCompleteDelayChange",
               [ from |-> s.hideOnCompleteDelay, to |-> delay ])

\* setAutoplayWaitForMessages (1922-1928)
setAutoplayWaitForMessages(s, wait) ==
    IF sameValue(s.autoplayWaitForMessages, wait) THEN s
    ELSE _emit([ s EXCEPT !.autoplayWaitForMessages = wait ],
               "autoplayWaitForMessagesChange",
               [ from |-> s.autoplayWaitForMessages, to |-> wait ])

\* setTracking (985-998)
setTracking(s, enabled) ==
    IF sameValue(s.tracking, enabled) THEN s
    ELSE Let([ s EXCEPT !.tracking = enabled ], LAMBDA s1 :
         Let(
                   IF enabled /\ s1.isVisible THEN _startTracking(s1)
                   ELSE IF ~enabled THEN _stopTracking(s1) ELSE s1
         , LAMBDA s2 :
             _emit(s2, "trackingChange", [ from |-> s.tracking,
                                           to |-> enabled ])))

\* the presets setInitialPosition accepts (1517); a selector is accepted too
ValidPresets ==
    { "center", "top-left", "top-center", "top-right", "middle-left",
      "middle-right", "bottom-left", "bottom-center", "bottom-right",
      "first-step" }

\* setInitialPosition (1516-1530)
setInitialPosition(s, position) ==
    IF position \notin Selectors /\ position \notin ValidPresets THEN s
    ELSE IF sameValue(s.initialPosition, position) THEN s
    ELSE _emit([ s EXCEPT !.initialPosition = position ],
               "initialPositionChange",
               [ from |-> s.initialPosition, to |-> position ])

\* setMessageInterval (1374-1386)
setMessageInterval(s, interval) ==
    IF sameValue(s.messageInterval, interval) THEN s
    ELSE Let(_stopMessageCycle([ s EXCEPT !.messageInterval = interval ]), LAMBDA s1 :
         Let(
                   IF Truthy(interval) /\ Len(s1.currentMessages) > 1
                   THEN _startMessageCycle(s1) ELSE s1
         , LAMBDA s2 :
             _emit(s2, "messageIntervalChange",
                   [ from |-> s.messageInterval, to |-> interval ])))

\* setAutoplayInterval (1886-1901)
setAutoplayInterval(s, interval) ==
    IF sameValue(s.autoplay, interval) THEN s
    ELSE Let(
                   _emit([ s EXCEPT !.autoplay = interval ], "autoplayChange",
                         [ from |-> s.autoplay, to |-> interval ])
         , LAMBDA s1 :
             IF s1.autoplayEnabled /\ Truthy(interval) /\ s1.isVisible
             THEN _scheduleAutoplay(_stopAutoplay(s1))
             ELSE IF ~Truthy(interval)
                  THEN [ _stopAutoplay(s1) EXCEPT !.autoplayEnabled = FALSE ]
                  ELSE s1)

\* setAutoplay (1907-1916)
setAutoplay(s, interval) ==
    Let(setAutoplayInterval(s, interval), LAMBDA s1 :
        IF Truthy(interval) /\ s1.isVisible
        THEN restart([ s1 EXCEPT !.autoplayEnabled = TRUE,
                                 !._autoplayPaused = FALSE ])
        ELSE s1)

----------------------------------------------------------------------------
\* Bounds of the model

\* caller operations in one behaviour
MaxOps == 3
\* caller operations in one behaviour of the setters
SetterOps == 2
\* the elapsed times the history keeps count of (ms); longer ones read as this
MaxElapsed == 700
\* the message-cycle ticks the history keeps count of
MaxTicks == 4

----------------------------------------------------------------------------
\* The host runs a due timer; time passes

\* the callback of a timer, by the place that scheduled it
runTimer(s, t) ==
    CASE t.kind = "introFade" -> introFadeDone(s, t)
      [] t.kind = "introMove" -> introMoveDone(s, t)
      [] t.kind = "stepSettle" -> stepSettleDone(s, t)
      [] t.kind = "pointToSettle" -> pointToSettleDone(s, t)
      [] t.kind = "resetSettle" -> resetSettleDone(s, t)
      [] t.kind = "restart" -> restartNow(s)
      [] t.kind = "messageCycle" -> messageCycleTick(s)
      [] t.kind = "autoplay" -> autoplayDone(s, t)
      [] t.kind = "autoplayAfterMessages" -> autoplayAfterMessagesDone(s, t)
      [] t.kind = "autoHide" -> autoHideDone(s, t)
      [] t.kind = "wait" -> s

\* timers due together run in the order they were created
firstDue(ts) ==
    CHOOSE i \in 1..Len(ts) :
        /\ ts[i].rem = 0
        /\ \A j \in 1..(i - 1) : ts[j].rem # 0

\* the pending timers once timer i has been taken to run: a one-shot timer
\* is gone, an interval is due again after its period
afterTaking(ts, i) ==
    LET rest == [ j \in 1..(Len(ts) - 1) |-> IF j < i THEN ts[j] ELSE ts[j + 1] ]
    IN  IF ts[i].period > 0
        THEN Append(rest, [ ts[i] EXCEPT !.rem = ts[i].period ])
        ELSE rest

minRem(ts) ==
    LET rems == { ts[i].rem : i \in 1..Len(ts) }
    IN  CHOOSE r \in rems : \A q \in rems : r <= q

capped(n) == IF n > MaxElapsed THEN MaxElapsed ELSE n

\* ---- history kept for the properties ----

NoAdvance == [ fired |-> FALSE, afterMessages |-> FALSE, wait |-> FALSE,
               m |-> 0, d |-> 0, age |-> 0, forStep |-> FALSE ]

\* what hide() found: a running message cycle, an active autoplay
NoPreHide == [ after |-> FALSE, cycle |-> FALSE, autoplay |-> FALSE ]

\* the last caller operation was goToStep(index), index in range
NoGo == [ on |-> FALSE, index |-> 0 ]

InitHist ==
    [ destroyed |-> FALSE, idle |-> FALSE, dead |-> {},
      preHide |-> NoPreHide, resumed |-> NoPreHide,
      cycle |-> [ ticks |-> 0, fromZero |-> FALSE, age |-> 0,
                  fresh |-> FALSE, forStep |-> FALSE ],
      sinceCall |-> 0, armed |-> FALSE, advance |-> NoAdvance,
      lastGo |-> NoGo, pointed |-> "no", threw |-> FALSE,
      returned |-> "undefined" ]

\* the state a caller operation starts from
Before == [ Cur EXCEPT !.hist.cycle.fresh = FALSE,
                       !.hist.threw = FALSE,
                       !.hist.returned = "undefined",
                       !.hist.advance = NoAdvance,
                       !.hist.resumed = NoPreHide ]

hasEvent(r, type) ==
    \E i \in 1..Len(r.log) : r.log[i].payload.type = type

\* whether an auto-hide is owed: from a next() on the last step of a visible
\* tour with resetOnComplete and hideOnComplete, until show, reset or destroy
\* is called
armedAfter(r) ==
    IF hasEvent(r, "complete") /\ r.resetOnComplete /\ r.hideOnComplete
    THEN r.isVisible
    ELSE IF hasEvent(r, "beforeShow") \/ hasEvent(r, "beforeReset")
            \/ hasEvent(r, "destroy")
         THEN FALSE
         ELSE r.hist.armed

\* the handlers subscribed in state s
subscribed(s) ==
    UNION { { s._eventListeners[k][i] : i \in 1..Len(s._eventListeners[k]) } :
            k \in DOMAIN s._eventListeners }

\* the history after the caller operation name(arg) that returned r
afterCall(name, arg, r) ==
    [ r EXCEPT
        !.hist.lastGo =
            IF name = "goToStep" /\ arg >= 0 /\ arg < Len(steps)
            THEN [ on |-> TRUE, index |-> arg ] ELSE NoGo,
        !.hist.pointed =
            IF name = "pointTo" THEN "pointed"
            ELSE IF name \in { "next", "prev" } /\ @ = "pointed" THEN "moved"
            ELSE "no",
        !.hist.sinceCall = 0,
        !.hist.cycle.fromZero = @ /\ r.hist.cycle.fresh,
        !.hist.armed = armedAfter(r),
        !.hist.destroyed = @ \/ name = "destroy",
        !.hist.idle = name = "destroy" \/ (@ /\ name = "on"),
        !.hist.dead = IF name = "destroy" THEN @ \cup subscribed(Cur) ELSE @,
        !.hist.preHide =
            IF name = "hide"
            THEN [ after |-> TRUE, cycle |-> _messageIntervalId # NoTimer,
                   autoplay |-> isAutoplayActive(Cur) ]
            ELSE NoPreHide,
        !.hist.resumed =
            IF name = "show" /\ _hasShownBefore /\ ~resetPositionOnHide
            THEN hist.preHide ELSE NoPreHide ]

Operation(kind, name, arg, same, r) ==
    /\ budget > 0
    /\ budget' = budget - 1
    /\ lastOp' = [ kind |-> kind, name |-> name, arg |-> arg, same |-> same ]
    /\ Install(afterCall(name, arg, completed(r)))

Called(name, arg, same, r) == Operation("call", name, arg, same, r)

\* a setter called with `arg`; same tells that arg is the current value
Setter(name, arg, same, r) == Operation("setter", name, arg, same, r)

\* the history after the callback of timer t returned r from state s
afterTimer(s, t, r) ==
    LET ticked == t.kind = "messageCycle"
        advanced == /\ t.kind \in { "autoplay", "autoplayAfterMessages" }
                    /\ \E i \in 1..Len(r.log) :
                           r.log[i].payload.type = "autoplayNext"
    IN  [ r EXCEPT
            !.hist.armed = armedAfter(r),
            !.hist.returned = "undefined",
            !.hist.cycle.ticks =
                IF ticked /\ ~r.hist.cycle.fresh /\ @ < MaxTicks
                THEN @ + 1 ELSE @,
            !.hist.cycle.fromZero =
                IF ticked /\ s.hist.cycle.ticks >= MaxTicks THEN FALSE ELSE @,
            !.hist.advance =
                IF advanced
                THEN [ fired |-> TRUE,
                       afterMessages |-> t.kind = "autoplayAfterMessages",
                       wait |-> s.autoplayWaitForMessages,
                       m |-> Len(s.currentMessages), d |-> s.messageInterval,
                       age |-> s.hist.cycle.age,
                       forStep |-> s.hist.cycle.forStep ]
                ELSE NoAdvance ]

TimerFires(kind) ==
    /\ \E i \in 1..Len(timers) : timers[i].rem = 0
    /\ LET i == firstDue(timers)
           t == timers[i]
           s == [ Before EXCEPT !.timers = afterTaking(timers, i) ]
       IN  /\ t.kind = kind
           /\ Install(afterTimer(s, t, completed(runTimer(s, t))))
           /\ lastOp' = [ kind |-> "timer", name |-> kind, arg |-> t.id,
                          same |-> FALSE ]
           /\ UNCHANGED budget

\* an animation frame: the host calls _trackPosition
Frame ==
    \E id \in frames :
        /\ Install(completed(_trackPosition([ Before EXCEPT !.frames = @ \ {id} ])))
        /\ lastOp' = [ kind |-> "frame", name |-> "frame", arg |-> id,
                       same |-> FALSE ]
        /\ UNCHANGED budget

\* time passes until the next timer is due
Advance ==
    /\ timers # << >>
    /\ \A i \in 1..Len(timers) : timers[i].rem > 0
    /\ LET d == minRem(timers)
       IN  /\ Install([ Before EXCEPT
                 !.timers = [ i \in 1..Len(timers) |->
                                [ timers[i] EXCEPT !.rem = @ - d ] ],
                 !.hist.sinceCall = capped(@ + d),
                 !.hist.cycle.age = capped(@ + d) ])
           /\ lastOp' = [ kind |-> "time", name |-> "advance", arg |-> d,
                          same |-> FALSE ]
           /\ UNCHANGED budget


----------------------------------------------------------------------------
\* Construction

\* the steps of the tours checked: a single message, two messages with a
\* forced direction, three messages with a duration of their own
StepA == [ target |-> "#a", content |-> [ isArray |-> FALSE, items |-> "a1" ],
           direction |-> NoDirection, duration |-> Undefined ]
StepB == [ target |-> "#b",
           content |-> [ isArray |-> TRUE, items |-> << "b1", "b2" >> ],
           direction |-> "down", duration |-> Undefined ]
StepC == [ target |-> "#c",
           content |-> [ isArray |-> TRUE, items |-> << "c1", "c2", "c3" >> ],
           direction |-> "up", duration |-> Undefined ]

\* the defaults of the constructor (433-451), with durations short enough to
\* follow: animationDuration and introFadeDuration are given by the caller
DefaultOptions ==
    [ steps |-> << StepA, StepB, StepC >>, tracking |-> TRUE,
      animationDuration |-> 200, introFadeDuration |-> 100,
      resetOnComplete |-> TRUE, initialPosition |-> "center",
      resetPositionOnHide |-> FALSE, autoplay |-> Null,
      autoplayEnabled |-> FALSE, autoplayWaitForMessages |-> TRUE,
      hideOnComplete |-> TRUE, hideOnCompleteDelay |-> Null,
      messageInterval |-> Null ]

\* constructor (417-536)
Pointy(o) ==
    [ steps |-> o.steps, animationDuration |-> o.animationDuration,
      introFadeDuration |-> o.introFadeDuration,
      messageInterval |-> IF Truthy(o.messageInterval) THEN o.messageInterval
                          ELSE Null,
      autoplay |-> IF Truthy(o.autoplay) THEN o.autoplay ELSE Null,
      autoplayEnabled |-> o.autoplayEnabled,
      autoplayWaitForMessages |-> o.autoplayWaitForMessages,
      resetOnComplete |-> o.resetOnComplete,
      hideOnComplete |-> o.hideOnComplete,
      hideOnCompleteDelay |-> o.hideOnCompleteDelay, tracking |-> o.tracking,
      initialPosition |-> o.initialPosition,
      resetPositionOnHide |-> o.resetPositionOnHide,
      options |-> [ easing |-> "default", bubbleFadeDuration |-> 500,
                    messageTransitionDuration |-> 500,
                    floatingAnimation |-> TRUE, trackingFps |-> 60,
                    initialPositionOffset |-> 32, pointerSvg |-> "svg",
                    offsetX |-> 20, offsetY |-> 16 ],
      targetElement |-> IF Len(o.steps) > 0
                        THEN getTargetElement(o.steps[1].target)
                        ELSE NoElement,
      currentStepIndex |-> 0, currentMessageIndex |-> 0,
      currentMessages |-> IF Len(o.steps) > 0
                          THEN normalizeContent(o.steps[1].content)
                          ELSE << "" >>,
      contentOwner |-> IF Len(o.steps) > 0 /\ o.steps[1].content.isArray
                       THEN 1 ELSE 0,
      isVisible |-> FALSE, isPointingUp |-> TRUE,
      manualDirection |-> NoDirection, _hasShownBefore |-> FALSE,
      _autoplayPaused |-> FALSE, _messagesCompletedForStep |-> FALSE,
      _messageCyclePaused |-> FALSE, _messageCyclePausedByHide |-> FALSE,
      _wasAutoplayActiveBeforeHide |-> FALSE, _autoplayTimeoutId |-> NoTimer,
      _messageIntervalId |-> NoTimer, _hideOnCompleteTimeoutId |-> NoTimer,
      moveTimeout |-> NoTimer, _rafId |-> NoTimer,
      _eventListeners |-> << >>, _targetYHistory |-> << >>,
      _lastDirectionChangeTime |-> 0, timers |-> << >>, frames |-> {},
      page |-> [ now |-> StartTime, targetY |-> AtRest ],
      log |-> << >>, hist |-> InitHist, uncaught |-> NoException ]

\* the variables hold the state s
Holds(s) ==
    /\ steps = s.steps
    /\ animationDuration = s.animationDuration
    /\ introFadeDuration = s.introFadeDuration
    /\ messageInterval = s.messageInterval
    /\ autoplay = s.autoplay
    /\ autoplayEnabled = s.autoplayEnabled
    /\ autoplayWaitForMessages = s.autoplayWaitForMessages
    /\ resetOnComplete = s.resetOnComplete
    /\ hideOnComplete = s.hideOnComplete
    /\ hideOnCompleteDelay = s.hideOnCompleteDelay
    /\ tracking = s.tracking
    /\ initialPosition = s.initialPosition
    /\ resetPositionOnHide = s.resetPositionOnHide
    /\ options = s.options
    /\ targetElement = s.targetElement
    /\ currentStepIndex = s.currentStepIndex
    /\ currentMessageIndex = s.currentMessageIndex
    /\ currentMessages = s.currentMessages
    /\ contentOwner = s.contentOwner
    /\ isVisible = s.isVisible
    /\ isPointingUp = s.isPointingUp
    /\ manualDirection = s.manualDirection
    /\ _hasShownBefore = s._hasShownBefore
    /\ _autoplayPaused = s._autoplayPaused
    /\ _messagesCompletedForStep = s._messagesCompletedForStep
    /\ _messageCyclePaused = s._messageCyclePaused
    /\ _messageCyclePausedByHide = s._messageCyclePausedByHide
    /\ _wasAutoplayActiveBeforeHide = s._wasAutoplayActiveBeforeHide
    /\ _autoplayTimeoutId = s._autoplayTimeoutId
    /\ _messageIntervalId = s._messageIntervalId
    /\ _hideOnCompleteTimeoutId = s._hideOnCompleteTimeoutId
    /\ moveTimeout = s.moveTimeout
    /\ _rafId = s._rafId
    /\ _eventListeners = s._eventListeners
    /\ _targetYHistory = s._targetYHistory
    /\ _lastDirectionChangeTime = s._lastDirectionChangeTime
    /\ timers = s.timers
    /\ frames = s.frames
    /\ page = s.page
    /\ log = s.log
    /\ hist = s.hist

Constructed(o, ops) ==
    /\ Holds(Pointy(o))
    /\ lastOp = [ kind |-> "init", name |-> "constructor", arg |-> 0,
                  same |-> FALSE ]
    /\ budget = ops


----------------------------------------------------------------------------
\* The caller's operations

\* the handlers a caller subscribes and the keys it subscribes them under
Handlers == { "h1", "h2" }
ListenerKeys == { "hide", "navigation", "*" }

On ==
    \E event \in ListenerKeys, handler \in Handlers :
        /\ handler \notin subscribed(Cur) \cup hist.dead
        /\ Called("on", << event, handler >>, FALSE, on(Before, event, handler))

Show == Called("show", 0, FALSE, show(Before))

Hide == Called("hide", 0, FALSE, hide(Before))

Destroy == Called("destroy", 0, FALSE, destroy(Before))

Restart == Called("restart", 0, FALSE, restart(Before))

Reset ==
    \E goToFirstStep \in BOOLEAN :
        Called("reset", goToFirstStep, FALSE, reset(Before, goToFirstStep))

CallNext == Called("next", currentStepIndex, FALSE, next(Before))

Prev == Called("prev", currentStepIndex, FALSE, prev(Before))

GoToStep ==
    \E index \in 0..Len(steps) :
        Called("goToStep", index, FALSE, goToStep(Before, index))

\* goToStep(index) by a caller that then waits animationDuration ms: the
\* wait is a timer of the caller's, set when goToStep has returned
GoToStepAndWait ==
    \E index \in 0..Len(steps) :
        Called("goToStep", index, FALSE,
               setTimeout(goToStep(Before, index), "wait", animationDuration,
                          [ index |-> index ]))

PointTo ==
    \E target \in { "#b", "#missing" },
       content \in { NoContent, [ isArray |-> TRUE, items |-> << "p1", "p2" >> ] },
       direction \in { "down" } :
        Called("pointTo", << target, content, direction >>, FALSE,
               pointTo(Before, target, content, direction))

NextMessage == Called("nextMessage", 0, FALSE, nextMessage(Before, FALSE))

PrevMessage == Called("prevMessage", 0, FALSE, prevMessage(Before))

GoToMessage ==
    \E index \in 0..Len(currentMessages) :
        Called("goToMessage", index, FALSE, goToMessage(Before, index))

SetMessage == Called("setMessage", "m", FALSE, setMessage(Before, "m"))

SetMessages ==
    \E content \in { [ isArray |-> FALSE, items |-> "s1" ],
                     [ isArray |-> TRUE, items |-> << "s1", "s2" >> ] },
       animate \in BOOLEAN :
        Called("setMessages", << content, animate >>, FALSE,
               setMessages(Before, content, animate))

PauseMessageCycle ==
    Called("pauseMessageCycle", 0, FALSE, pauseMessageCycle(Before))

ResumeMessageCycle ==
    Called("resumeMessageCycle", 0, FALSE, resumeMessageCycle(Before))

StartMessageCycle ==
    \E interval \in { Undefined, 100 } :
        Called("startMessageCycle", interval, FALSE,
               startMessageCycle(Before, interval))

StopMessageCycle ==
    Called("stopMessageCycle", 0, FALSE, stopMessageCycle(Before))

StartAutoplay == Called("startAutoplay", 0, FALSE, startAutoplay(Before))

StopAutoplay == Called("stopAutoplay", 0, FALSE, stopAutoplay(Before))

PauseAutoplay == Called("pauseAutoplay", 0, FALSE, pauseAutoplay(Before))

ResumeAutoplay == Called("resumeAutoplay", 0, FALSE, resumeAutoplay(Before))

UpdateTarget ==
    \E target \in { "#a", "#c" } :
        Called("updateTarget", target, FALSE, updateTarget(Before, target))


\* ---- the setters, each called with the current value or another one ----

SetEasing ==
    \E v \in { "default", "ease-in" } :
        Setter("setEasing", v, v = options.easing, setEasing(Before, v))

SetBubbleFadeDuration ==
    \E v \in { 500, 300 } :
        Setter("setBubbleFadeDuration", v, v = options.bubbleFadeDuration,
               setBubbleFadeDuration(Before, v))

SetMessageTransitionDuration ==
    \E v \in { 500, 300 } :
        Setter("setMessageTransitionDuration", v,
               v = options.messageTransitionDuration,
               setMessageTransitionDuration(Before, v))

SetFloatingAnimation ==
    \E v \in BOOLEAN :
        Setter("setFloatingAnimation", v, v = options.floatingAnimation,
               setFloatingAnimation(Before, v))

SetTrackingFps ==
    \E v \in { 60, 30 } :
        Setter("setTrackingFps", v, v = options.trackingFps,
               setTrackingFps(Before, v))

SetInitialPositionOffset ==
    \E v \in { 32, 8 } :
        Setter("setInitialPositionOffset", v,
               v = options.initialPositionOffset,
               setInitialPositionOffset(Before, v))

SetPointerSvg ==
    \E v \in { "svg", "svg2" } :
        Setter("setPointerSvg", v, v = options.pointerSvg,
               setPointerSvg(Before, v))

SetOffset ==
    \E x \in { 20, 5 }, y \in { 16, 4 } :
        Setter("setOffset", << x, y >>,
               x = options.offsetX /\ y = options.offsetY,
               setOffset(Before, x, y))

SetAnimationDuration ==
    \E v \in { 200, 100 } :
        Setter("setAnimationDuration", v, v = animationDuration,
               setAnimationDuration(Before, v))

SetIntroFadeDuration ==
    \E v \in { 100, 50 } :
        Setter("setIntroFadeDuration", v, v = introFadeDuration,
               setIntroFadeDuration(Before, v))

SetResetOnComplete ==
    \E v \in BOOLEAN :
        Setter("setResetOnComplete", v, v = resetOnComplete,
               setResetOnComplete(Before, v))

SetHideOnComplete ==
    \E v \in BOOLEAN :
        Setter("setHideOnComplete", v, v = hideOnComplete,
               setHideOnComplete(Before, v))

SetHideOnCompleteDelay ==
    \E v \in { Null, 100 } :
        Setter("setHideOnCompleteDelay", v, v = hideOnCompleteDelay,
               setHideOnCompleteDelay(Before, v))

SetAutoplayWaitForMessages ==
    \E v \in BOOLEAN :
        Setter("setAutoplayWaitForMessages", v, v = autoplayWaitForMessages,
               setAutoplayWaitForMessages(Before, v))

SetTracking ==
    \E v \in BOOLEAN :
        Setter("setTracking", v, v = tracking, setTracking(Before, v))

SetInitialPosition ==
    \E v \in { "center", "first-step", "nowhere" } :
        Setter("setInitialPosition", v, v = initialPosition,
               setInitialPosition(Before, v))

SetMessageInterval ==
    \E v \in { Null, 100 } :
        Setter("setMessageInterval", v, v = messageInterval,
               setMessageInterval(Before, v))

SetAutoplayInterval ==
    \E v \in { Null, 200 } :
        Setter("setAutoplayInterval", v, v = autoplay,
               setAutoplayInterval(Before, v))

SetAutoplay ==
    \E v \in { Null, 200 } :
        Setter("setAutoplay", v, v = autoplay, setAutoplay(Before, v))


\* ---- the host's timer callbacks, one action each ----

IntroFadeTimer == TimerFires("introFade")
IntroMoveTimer == TimerFires("introMove")
StepSettleTimer == TimerFires("stepSettle")
PointToSettleTimer == TimerFires("pointToSettle")
ResetSettleTimer == TimerFires("resetSettle")
RestartTimer == TimerFires("restart")
MessageCycleTimer == TimerFires("messageCycle")
AutoplayTimer == TimerFires("autoplay")
AutoplayAfterMessagesTimer == TimerFires("autoplayAfterMessages")
AutoHideTimer == TimerFires("autoHide")
\* the caller's wait is over
WaitOver == TimerFires("wait")

----------------------------------------------------------------------------
\* Specification of the lifecycle: show, hide, destroy, completion

LifeOptions ==
    { [ DefaultOptions EXCEPT !.steps = st, !.autoplay = a,
                              !.autoplayEnabled = Truthy(a),
                              !.messageInterval = mi,
                              !.autoplayWaitForMessages = w ] :
        st \in { << StepB >>, << StepA, StepC >> }, a \in { Null, 200 },
        mi \in { Null, 100 }, w \in BOOLEAN }

InitLife == \E o \in LifeOptions : Constructed(o, MaxOps)

NextLife ==
    \/ On
    \/ Show
    \/ Hide
    \/ Destroy
    \/ CallNext
    \/ IntroFadeTimer
    \/ IntroMoveTimer
    \/ StepSettleTimer
    \/ ResetSettleTimer
    \/ MessageCycleTimer
    \/ AutoplayTimer
    \/ AutoplayAfterMessagesTimer
    \/ AutoHideTimer
    \/ Frame
    \/ Advance

SpecLife == InitLife /\ [][NextLife]_vars


----------------------------------------------------------------------------
\* Properties of the lifecycle

pendingKinds == { timers[i].kind : i \in 1..Len(timers) }

\* the pending timer a handle names, if any
pendingUnder(handle, kind) ==
    \E i \in 1..Len(timers) : timers[i].id = handle /\ timers[i].kind = kind

hasCallback(l) == \E i \in 1..Len(l) : "callback" \in DOMAIN l[i].payload

\* C1: once destroy() has returned, no event is delivered to a handler that
\* was subscribed before the destroy call.
C1_NoDeliveryAfterDestroy ==
    [][ \A i \in 1..Len(log') : \A j \in 1..Len(log'[i].to) :
            log'[i].to[j] \notin hist.dead ]_vars

\* an event is emitted by a timer callback after destroy(), with handlers
\* that had been subscribed
C1_Witness ==
    /\ hist.dead # {}
    /\ hist.idle
    /\ lastOp.kind = "timer"
    /\ log # << >>

\* C2: after destroy() has returned, and with no method called on the
\* instance since, no timer callback changes currentStepIndex,
\* currentMessageIndex or isVisible, or invokes a callback.
C2_DestroyStopsTimers ==
    [][ hist.idle /\ lastOp'.kind = "timer" =>
            /\ currentStepIndex' = currentStepIndex
            /\ currentMessageIndex' = currentMessageIndex
            /\ isVisible' = isVisible
            /\ ~hasCallback(log') ]_vars

\* C9: when hide() has returned, isVisible is false and no tracking frame,
\* message interval, autoplay timer or auto-hide timer is pending.
C9_HideLeavesNothingPending ==
    lastOp.kind = "call" /\ lastOp.name = "hide" =>
        /\ ~isVisible
        /\ frames = {}
        /\ pendingKinds \cap { "messageCycle", "autoplay",
                               "autoplayAfterMessages", "autoHide" } = {}

\* an autoplay advance is scheduled: its timer is pending, or the wait for
\* the messages is on and the message cycle that ends in it is running
advanceScheduled ==
    \/ pendingUnder(_autoplayTimeoutId, "autoplay")
    \/ pendingUnder(_autoplayTimeoutId, "autoplayAfterMessages")
    \/ /\ autoplayWaitForMessages
       /\ Len(currentMessages) > 1
       /\ pendingUnder(_messageIntervalId, "messageCycle")

\* C10: show() after hide() (intro played, resetPositionOnHide false)
\* resumes the message cycle if it was running at the hide, and schedules an
\* autoplay advance if autoplay was active at the hide.
C10_ShowResumes ==
    lastOp.kind = "call" /\ lastOp.name = "show" /\ hist.resumed.after =>
        /\ hist.resumed.cycle =>
               pendingUnder(_messageIntervalId, "messageCycle")
        /\ hist.resumed.autoplay => advanceScheduled

\* show() after a hide() that stopped a running cycle and an active autoplay
C10_Witness ==
    /\ lastOp.kind = "call" /\ lastOp.name = "show"
    /\ hist.resumed.after /\ hist.resumed.cycle /\ hist.resumed.autoplay
    /\ isVisible


----------------------------------------------------------------------------
\* Specification of navigation: goToStep, next, prev, pointTo

NavOptions ==
    { [ DefaultOptions EXCEPT !.autoplay = a, !.autoplayEnabled = Truthy(a),
                              !.messageInterval = mi,
                              !.animationDuration = ad ] :
        a \in { Null, 200 }, mi \in { Null, 100 }, ad \in { 200, 600 } }

InitNav == \E o \in NavOptions : Constructed(o, MaxOps)

NextNav ==
    \/ Show
    \/ GoToStepAndWait
    \/ CallNext
    \/ Prev
    \/ PointTo
    \/ WaitOver
    \/ IntroFadeTimer
    \/ IntroMoveTimer
    \/ StepSettleTimer
    \/ PointToSettleTimer
    \/ ResetSettleTimer
    \/ MessageCycleTimer
    \/ AutoplayTimer
    \/ AutoplayAfterMessagesTimer
    \/ AutoHideTimer
    \/ Frame
    \/ Advance

SpecNav == InitNav /\ [][NextNav]_vars

----------------------------------------------------------------------------
\* Specification of the message cycle under autoplay

CycleOptions ==
    { [ DefaultOptions EXCEPT !.autoplay = a[1], !.autoplayEnabled = a[2],
                              !.messageInterval = 100,
                              !.autoplayWaitForMessages = w ] :
        a \in { << Null, FALSE >>, << 200, FALSE >>, << 200, TRUE >> },
        w \in BOOLEAN }

InitCycle == \E o \in CycleOptions : Constructed(o, MaxOps)

NextCycle ==
    \/ Show
    \/ GoToStep
    \/ GoToMessage
    \/ IntroFadeTimer
    \/ IntroMoveTimer
    \/ StepSettleTimer
    \/ MessageCycleTimer
    \/ AutoplayTimer
    \/ AutoplayAfterMessagesTimer
    \/ Frame
    \/ Advance

SpecCycle == InitCycle /\ [][NextCycle]_vars


----------------------------------------------------------------------------
\* Properties of navigation and of the message cycle

\* C3: goToStep(i) with i in range, then animationDuration ms without
\* another caller operation: currentStepIndex is i and targetElement is the
\* resolved target of steps[i].
C3_GoToStepSettles ==
    ( /\ lastOp.kind = "timer" /\ lastOp.name = "wait"
      /\ hist.lastGo.on /\ hist.sinceCall = animationDuration ) =>
        /\ currentStepIndex = hist.lastGo.index
        /\ targetElement = getTargetElement(steps[hist.lastGo.index + 1].target)

\* C5: pointTo leaves currentStepIndex as it is; a next() after it (not on
\* the last step) moves to currentStepIndex + 1 and a prev() after it (not
\* on the first) to currentStepIndex - 1.
C5_PointToKeepsStep ==
    [][ /\ lastOp'.kind = "call" /\ lastOp'.name = "pointTo" =>
               currentStepIndex' = currentStepIndex
        /\ ( /\ hist.pointed = "pointed"
             /\ lastOp'.kind = "call" /\ lastOp'.name = "next"
             /\ currentStepIndex < Len(steps) - 1 ) =>
               currentStepIndex' = currentStepIndex + 1
        /\ ( /\ hist.pointed = "pointed"
             /\ lastOp'.kind = "call" /\ lastOp'.name = "prev"
             /\ currentStepIndex > 0 ) =>
               currentStepIndex' = currentStepIndex - 1 ]_vars

\* prev() right after a pointTo() that moved the pointer away from step 1's
\* target
C5_Witness ==
    /\ hist.pointed = "moved"
    /\ lastOp.name = "prev"
    /\ currentStepIndex = 0
    /\ \E i \in 1..Len(log) : log[i].payload.type = "stepChange"

\* C7: n > 1 messages, a cycle started at index 0 and left alone, no wait
\* for the messages active: after the k-th tick currentMessageIndex is
\* k mod n.
C7_CycleIndex ==
    ( /\ lastOp.kind = "timer" /\ lastOp.name = "messageCycle"
      /\ hist.cycle.fromZero
      /\ Len(currentMessages) > 1
      /\ ~(isAutoplayActive(Cur) /\ autoplayWaitForMessages) ) =>
        currentMessageIndex = hist.cycle.ticks % Len(currentMessages)

\* C8: with the wait for the messages on, m > 1 messages and interval d, the
\* timer that follows the last message calls next() no sooner than
\* (m-1)*d + 300 ms after the step's message cycle started, whatever message
\* operations the caller performs meanwhile.
C8_AutoplayWaitsForMessages ==
    ( /\ hist.advance.fired /\ hist.advance.afterMessages
      /\ hist.advance.wait /\ hist.advance.forStep
      /\ hist.advance.m > 1 /\ Truthy(hist.advance.d) ) =>
        hist.advance.age >=
            (hist.advance.m - 1) * hist.advance.d + AfterMessagesDelay


----------------------------------------------------------------------------
\* Specification of the setters

SetterOptions ==
    { [ DefaultOptions EXCEPT !.steps = << StepB >>, !.autoplay = a,
                              !.autoplayEnabled = Truthy(a),
                              !.messageInterval = mi ] :
        a \in { Null, 200 }, mi \in { Null, 100 } }

InitSetters == \E o \in SetterOptions : Constructed(o, SetterOps)

NextSetters ==
    \/ Show
    \/ SetEasing
    \/ SetAnimationDuration
    \/ SetIntroFadeDuration
    \/ SetBubbleFadeDuration
    \/ SetMessageInterval
    \/ SetMessageTransitionDuration
    \/ SetOffset
    \/ SetResetOnComplete
    \/ SetHideOnComplete
    \/ SetHideOnCompleteDelay
    \/ SetFloatingAnimation
    \/ SetTracking
    \/ SetTrackingFps
    \/ SetInitialPosition
    \/ SetInitialPositionOffset
    \/ SetAutoplayInterval
    \/ SetAutoplay
    \/ SetAutoplayWaitForMessages
    \/ SetPointerSvg
    \/ IntroFadeTimer
    \/ IntroMoveTimer
    \/ StepSettleTimer
    \/ ResetSettleTimer
    \/ RestartTimer
    \/ MessageCycleTimer
    \/ AutoplayTimer
    \/ AutoplayAfterMessagesTimer
    \/ AutoHideTimer
    \/ Frame
    \/ Advance

SpecSetters == InitSetters /\ [][NextSetters]_vars

\* the engine's state: every field and every pending timer and frame
engineState ==
    << steps, animationDuration, introFadeDuration, messageInterval, autoplay,
       autoplayEnabled, autoplayWaitForMessages, resetOnComplete,
       hideOnComplete, hideOnCompleteDelay, tracking, initialPosition,
       resetPositionOnHide, options, targetElement, currentStepIndex,
       currentMessageIndex, currentMessages, contentOwner, isVisible,
       isPointingUp, manualDirection, _hasShownBefore, _autoplayPaused,
       _messagesCompletedForStep, _messageCyclePaused,
       _messageCyclePausedByHide, _wasAutoplayActiveBeforeHide,
       _autoplayTimeoutId, _messageIntervalId, _hideOnCompleteTimeoutId,
       moveTimeout, _rafId, _eventListeners, _targetYHistory,
       _lastDirectionChangeTime, timers, frames >>

----------------------------------------------------------------------------
\* Specification of completion, with the host's timers running

LiveOptions ==
    { [ DefaultOptions EXCEPT !.steps = << StepA, StepB >>, !.autoplay = a,
                              !.autoplayEnabled = Truthy(a),
                              !.resetOnComplete = roc,
                              !.hideOnComplete = hoc ] :
        a \in { Null, 200 }, roc \in BOOLEAN, hoc \in BOOLEAN }

InitLive == \E o \in LiveOptions : Constructed(o, MaxOps)

NextLive ==
    \/ Show
    \/ CallNext
    \/ Reset
    \/ Destroy
    \/ IntroFadeTimer
    \/ IntroMoveTimer
    \/ StepSettleTimer
    \/ ResetSettleTimer
    \/ AutoplayTimer
    \/ AutoHideTimer
    \/ Frame
    \/ Advance

\* a step of the host: a timer callback runs, or time passes
HostRuns == lastOp'.kind \in { "timer", "time" }

\* The host runs every due timer and lets time pass: weak fairness of
\* HostRuns, which is enabled exactly when a timer is pending.
HostIsFair ==
    \/ []<>(timers = << >>)
    \/ []<><<HostRuns>>_vars

SpecLive == InitLive /\ [][NextLive]_vars /\ HostIsFair

\* the events of that name the last action emitted
emitted(l, type) == { i \in 1..Len(l) : l[i].payload.type = type }

\* next() is called on the last step by this action: by the caller, or by
\* an autoplay timer
nextOnLastStep ==
    /\ Len(steps) > 0
    /\ currentStepIndex = Len(steps) - 1
    /\ \/ lastOp'.kind = "call" /\ lastOp'.name = "next"
       \/ lastOp'.kind = "timer" /\ emitted(log', "autoplayNext") # {}

\* C4: a next() on the last step emits exactly one complete event; with
\* resetOnComplete and hideOnComplete the tour is eventually hidden, unless
\* show, reset or destroy is called first.
C4_CompleteThenHidden ==
    /\ [][ nextOnLastStep => Cardinality(emitted(log', "complete")) = 1 ]_vars
    /\ (hist.armed ~> (~isVisible \/ ~hist.armed))

\* the auto-hide timer of a completion has hidden a tour that was visible
C4_Witness ==
    /\ hist.armed
    /\ lastOp.kind = "timer" /\ lastOp.name = "autoHide"
    /\ ~isVisible
    /\ resetOnComplete /\ hideOnComplete


----------------------------------------------------------------------------
\* The event bus under subscriptions: handlers subscribed under an event's
\* name, under its group and under the two wildcards, one of them throwing,
\* while the tour is navigated

\* caller operations in one behaviour of the event bus
MaxBusOps == 5

BusHandlers == { "h1", "h2", "h3", "bad" }
BusKeys == { "next", "navigation", "*", "all" }

Subscribe ==
    \E event \in BusKeys, handler \in BusHandlers :
        /\ handler \notin subscribed(Cur)
        /\ Called("on", << event, handler >>, FALSE, on(Before, event, handler))

InitBus == Constructed(DefaultOptions, MaxBusOps)

NextBus ==
    \/ Subscribe
    \/ CallNext
    \/ StepSettleTimer
    \/ Advance

SpecBus == InitBus /\ [][NextBus]_vars

\* the key a subscribed handler is subscribed under, and its place there
keyOf(h) ==
    CHOOSE k \in DOMAIN _eventListeners :
        \E i \in 1..Len(_eventListeners[k]) : _eventListeners[k][i] = h

placeOf(h) ==
    CHOOSE i \in 1..Len(_eventListeners[keyOf(h)]) :
        _eventListeners[keyOf(h)][i] = h

\* the groups that list the event, 'config' for an unlisted *Change event
groupsContaining(name) ==
    LET listed == { EVENT_GROUPS[i].group :
                      i \in { j \in 1..Len(EVENT_GROUPS) :
                                name \in EVENT_GROUPS[j].events } }
    IN  IF listed = {} /\ endsWithChange(name) THEN { "config" } ELSE listed

\* when the handlers under key k are called for the event: 1 for the name
\* itself, 2 for its group, 3 for '*', 4 for 'all', 0 for never
deliveryRank(k, name) ==
    CASE k = name -> 1
      [] k \in groupsContaining(name) -> 2
      [] k = "*" -> 3
      [] k = "all" -> 4
      [] OTHER -> 0

among(seq, x) == \E j \in 1..Len(seq) : seq[j] = x

\* C12: a handler that throws is reported and stops nothing.  Every event
\* delivered to it is still delivered to every other handler subscribed under
\* the event's name, its group, '*' and 'all', the error is written to the
\* console, and no exception reaches the caller of the operation or the host
\* of the timer; next() off the last step still moves to the following step,
\* with its target and its messages, and emits stepChange after the
\* beforeStepChange the handler threw on.
C12_ThrowingHandlerStopsNothing ==
    [][ /\ ~hist'.threw
        /\ \A i \in 1..Len(log') :
             among(log'[i].to, "bad") =>
               /\ among(log'[i].errors, "bad")
               /\ \A h \in subscribed(Cur) :
                    deliveryRank(keyOf(h), log'[i].name) > 0 =>
                      among(log'[i].to, h)
        /\ ( /\ lastOp'.kind = "call" /\ lastOp'.name = "next"
             /\ currentStepIndex < Len(steps) - 1 ) =>
               /\ currentStepIndex' = currentStepIndex + 1
               /\ targetElement' =
                    getTargetElement(steps[currentStepIndex + 2].target)
               /\ currentMessages' =
                    normalizeContent(steps[currentStepIndex + 2].content)
               /\ emitted(log', "stepChange") # {} ]_vars

\* next() has moved to step 1 although the throwing handler was the first
\* of two called for 'beforeStepChange'
C12_Witness ==
    /\ lastOp.kind = "call" /\ lastOp.name = "next"
    /\ currentStepIndex = 1
    /\ \E i \in 1..Len(log) :
         /\ log[i].name = "beforeStepChange"
         /\ Len(log[i].to) >= 2
         /\ log[i].to[1] = "bad"
         /\ log[i].errors = << "bad" >>


----------------------------------------------------------------------------
\* Calls with an index out of range: a tour with no step or with two, shown
\* with its message cycle and autoplay running, and navigated with any index

RangeOptions ==
    { [ DefaultOptions EXCEPT !.steps = st, !.messageInterval = 100,
                              !.autoplay = 200, !.autoplayEnabled = TRUE,
                              !.autoplayWaitForMessages = w ] :
        st \in { << >>, << StepB, StepA >> }, w \in BOOLEAN }

GoToAnyStep ==
    \E index \in (-1)..Len(steps) :
        Called("goToStep", index, FALSE, goToStep(Before, index))

GoToAnyMessage ==
    \E index \in (-1)..Len(currentMessages) :
        Called("goToMessage", index, FALSE, goToMessage(Before, index))

InitRange == \E o \in RangeOptions : Constructed(o, MaxOps)

NextRange ==
    \/ Show
    \/ GoToAnyStep
    \/ CallNext
    \/ Prev
    \/ GoToAnyMessage
    \/ IntroFadeTimer
    \/ IntroMoveTimer
    \/ StepSettleTimer
    \/ ResetSettleTimer
    \/ MessageCycleTimer
    \/ AutoplayTimer
    \/ AutoplayAfterMessagesTimer
    \/ AutoHideTimer
    \/ Frame
    \/ Advance

SpecRange == InitRange /\ [][NextRange]_vars

\* the call just made had nothing to act on: goToStep with an index that is
\* no step's, next with no step, prev on the first step, goToMessage with an
\* index that is no current message's
outOfRangeCall ==
    /\ lastOp'.kind = "call"
    /\ \/ /\ lastOp'.name = "goToStep"
          /\ lastOp'.arg < 0 \/ lastOp'.arg >= Len(steps)
       \/ lastOp'.name = "next" /\ Len(steps) = 0
       \/ lastOp'.name = "prev" /\ currentStepIndex = 0
       \/ /\ lastOp'.name = "goToMessage"
          /\ lastOp'.arg < 0 \/ lastOp'.arg >= Len(currentMessages)

\* C13: goToStep(i) with i < 0, i >= steps.length or no step, next() with no
\* step, prev() on step 0 and goToMessage(j) with j outside the current
\* messages emit no event, change no state and neither cancel nor start a
\* timer or a frame callback.
C13_OutOfRangeNoOp ==
    [][ outOfRangeCall => log' = << >> /\ engineState' = engineState ]_vars

\* goToStep(-1) has been called on a visible tour whose message cycle is
\* running
C13_Witness ==
    /\ lastOp.kind = "call" /\ lastOp.name = "goToStep" /\ lastOp.arg = -1
    /\ isVisible /\ Len(steps) = 2
    /\ pendingUnder(_messageIntervalId, "messageCycle")


----------------------------------------------------------------------------
\* The step index under every navigation: a tour with no step or with two,
\* autoplay running, navigated with any index, pointed elsewhere, reset and
\* restarted

StepsOptions ==
    { [ DefaultOptions EXCEPT !.steps = st, !.autoplay = 200,
                              !.autoplayEnabled = TRUE,
                              !.resetOnComplete = r ] :
        st \in { << >>, << StepB, StepA >> }, r \in BOOLEAN }

InitSteps == \E o \in StepsOptions : Constructed(o, MaxOps)

NextSteps ==
    \/ Show
    \/ Hide
    \/ CallNext
    \/ Prev
    \/ GoToAnyStep
    \/ PointTo
    \/ Reset
    \/ Restart
    \/ IntroFadeTimer
    \/ IntroMoveTimer
    \/ StepSettleTimer
    \/ PointToSettleTimer
    \/ ResetSettleTimer
    \/ RestartTimer
    \/ AutoplayTimer
    \/ AutoHideTimer
    \/ Frame
    \/ Advance

SpecSteps == InitSteps /\ [][NextSteps]_vars

\* C14: currentStepIndex is always the index of a step, 0 <= currentStepIndex
\* < steps.length, or 0 when the tour has no step.
C14_StepIndexInRange ==
    IF Len(steps) = 0 THEN currentStepIndex = 0
    ELSE currentStepIndex \in 0..(Len(steps) - 1)

\* goToStep(steps.length) has been called on the last step
C14_Witness ==
    /\ lastOp.kind = "call" /\ lastOp.name = "goToStep"
    /\ lastOp.arg = Len(steps) /\ Len(steps) = 2
    /\ currentStepIndex = 1


----------------------------------------------------------------------------
\* The message cursor under every message operation: a tour whose first step
\* has three messages, cycling, with its messages replaced (by none, by one,
\* by two), rewritten, stepped through, and the tour navigated, pointed
\* elsewhere and reset

MessagesOptions ==
    { [ DefaultOptions EXCEPT !.steps = << StepC, StepA >>,
                              !.messageInterval = 100 ] }

SetAnyMessages ==
    \E content \in { [ isArray |-> FALSE, items |-> "s1" ],
                     [ isArray |-> TRUE, items |-> << >> ],
                     [ isArray |-> TRUE, items |-> << "s1", "s2" >> ] },
       animate \in BOOLEAN :
        Called("setMessages", << content, animate >>, FALSE,
               setMessages(Before, content, animate))

InitMessages == \E o \in MessagesOptions : Constructed(o, MaxOps)

NextMessages ==
    \/ SetAnyMessages
    \/ SetMessage
    \/ NextMessage
    \/ PrevMessage
    \/ GoToAnyMessage
    \/ GoToAnyStep
    \/ PointTo
    \/ Reset
    \/ IntroFadeTimer
    \/ IntroMoveTimer
    \/ StepSettleTimer
    \/ PointToSettleTimer
    \/ ResetSettleTimer
    \/ MessageCycleTimer
    \/ Frame
    \/ Advance

SpecMessages == InitMessages /\ [][NextMessages]_vars

\* C15: currentMessageIndex is always the index of a current message,
\* 0 <= currentMessageIndex < currentMessages.length, unless there is no
\* current message.
C15_MessageIndexInRange ==
    \/ currentMessages = << >>
    \/ currentMessageIndex \in 0..(Len(currentMessages) - 1)

\* the message cycle has wrapped from the last of three messages to the first
C15_Witness ==
    /\ lastOp.kind = "timer" /\ lastOp.name = "messageCycle"
    /\ Len(currentMessages) = 3
    /\ hist.cycle.ticks = 3
    /\ currentMessageIndex = 0


----------------------------------------------------------------------------
\* Completion: a tour of two steps, with and without autoplay, under every
\* completion policy (resetOnComplete, hideOnComplete, hideOnCompleteDelay
\* not set, 0 and 300), stepped by the caller and by autoplay

CompleteOptions ==
    { [ DefaultOptions EXCEPT !.steps = << StepA, StepB >>, !.autoplay = a,
                              !.autoplayEnabled = Truthy(a),
                              !.resetOnComplete = roc,
                              !.hideOnComplete = hoc,
                              !.hideOnCompleteDelay = d ] :
        a \in { Null, 200 }, roc \in BOOLEAN, hoc \in BOOLEAN,
        d \in { Null, 0, 300 } }

InitComplete == \E o \in CompleteOptions : Constructed(o, MaxOps)

NextComplete ==
    \/ Show
    \/ CallNext
    \/ IntroFadeTimer
    \/ IntroMoveTimer
    \/ StepSettleTimer
    \/ ResetSettleTimer
    \/ AutoplayTimer
    \/ AutoHideTimer
    \/ Frame
    \/ Advance

SpecComplete == InitComplete /\ [][NextComplete]_vars

\* where in the log l the first event of that name is, 0 if nowhere
firstOf(l, name) ==
    IF emitted(l, name) = {} THEN 0
    ELSE CHOOSE i \in emitted(l, name) : \A j \in emitted(l, name) : i <= j

\* where in the timers ts the timer of that id is, 0 if nowhere
pendingAt(ts, id) ==
    IF \E i \in 1..Len(ts) : ts[i].id = id
    THEN CHOOSE i \in 1..Len(ts) : ts[i].id = id
    ELSE 0

\* C16: next() on the last step emits complete first; if autoplay was active
\* it then cancels the autoplay timer its handle names, disables autoplay and emits
\* autoplayComplete, and otherwise emits no autoplayComplete; then, with
\* resetOnComplete, it resets (beforeReset is the next event and the reset's
\* settle timer is set) before, with hideOnComplete, it sets the auto-hide
\* timer; without hideOnComplete it sets none; the onComplete callback is what
\* it does last.  next() on another step emits next, then goes to the
\* following step, and emits no complete.
C16_CompletionOrder ==
    [][ /\ nextOnLastStep =>
             LET c == firstOf(log', "complete")
                 active == isAutoplayActive(Cur)
                 r == IF active THEN c + 2 ELSE c + 1
             IN  /\ c > 0
                 /\ \A i \in 1..(c - 1) : log'[i].name = "autoplayNext"
                 /\ IF active
                    THEN /\ log'[c + 1].name = "autoplayComplete"
                         /\ ~autoplayEnabled'
                         /\ _autoplayTimeoutId' = NoTimer
                         /\ \A i \in 1..Len(timers') :
                              timers'[i].kind = "autoplay" =>
                                timers'[i].id # _autoplayTimeoutId
                    ELSE emitted(log', "autoplayComplete") = {}
                 /\ IF resetOnComplete
                    THEN /\ log'[r].name = "beforeReset"
                         /\ pendingAt(timers', moveTimeout') > 0
                         /\ timers'[pendingAt(timers', moveTimeout')].kind
                              = "resetSettle"
                    ELSE emitted(log', "beforeReset") = {}
                 /\ IF hideOnComplete
                    THEN /\ pendingAt(timers', _hideOnCompleteTimeoutId') > 0
                         /\ timers'[pendingAt(timers', _hideOnCompleteTimeoutId')].kind
                              = "autoHide"
                         /\ resetOnComplete =>
                              pendingAt(timers', moveTimeout')
                                < pendingAt(timers', _hideOnCompleteTimeoutId')
                    ELSE /\ _hideOnCompleteTimeoutId' = NoTimer
                         /\ \A i \in 1..Len(timers') :
                              timers'[i].kind = "autoHide" =>
                                \E j \in 1..Len(timers) : timers[j] = timers'[i]
                 /\ log'[Len(log')].name = "onComplete"
                 /\ "callback" \in DOMAIN log'[Len(log')].payload
                 /\ Cardinality(emitted(log', "onComplete")) = 1
        /\ ( /\ lastOp'.kind = "call" /\ lastOp'.name = "next"
             /\ currentStepIndex < Len(steps) - 1 ) =>
               /\ log'[1].name = "next"
               /\ log'[2].name = "beforeStepChange"
               /\ emitted(log', "complete") = {}
               /\ currentStepIndex' = currentStepIndex + 1 ]_vars

\* next() called by the caller on the last step of a tour with autoplay
\* active, resetOnComplete and hideOnComplete has ended autoplay and set the
\* auto-hide timer
C16_Witness ==
    /\ lastOp.kind = "call" /\ lastOp.name = "next"
    /\ Len(log) >= 4
    /\ log[1].name = "complete" /\ log[2].name = "autoplayComplete"
    /\ log[3].name = "beforeReset" /\ log[Len(log)].name = "onComplete"
    /\ pendingUnder(_hideOnCompleteTimeoutId, "autoHide")
    /\ isVisible


\* the hide delay the completion options ask for
configuredHideDelay ==
    IF hideOnCompleteDelay = Null THEN animationDuration
    ELSE hideOnCompleteDelay

\* C17: a completion with hideOnComplete sets the auto-hide timer to
\* animationDuration + hideDelay when resetOnComplete ran the reset and to
\* hideDelay otherwise, hideDelay being hideOnCompleteDelay when configured
\* (0 included) and animationDuration when it is null, and the autoHide event
\* reports that hideDelay; without hideOnComplete no auto-hide timer is ever
\* pending and no autoHide event is ever emitted.
C17_AutoHideDelay ==
    /\ [][ /\ (nextOnLastStep /\ hideOnComplete) =>
                LET h == pendingAt(timers', _hideOnCompleteTimeoutId')
                IN  /\ h > 0
                    /\ timers'[h].kind = "autoHide"
                    /\ timers'[h].rem =
                         IF resetOnComplete
                         THEN animationDuration + configuredHideDelay
                         ELSE configuredHideDelay
                    /\ timers'[h].data.delay = configuredHideDelay
           /\ \A i \in emitted(log', "autoHide") :
                /\ lastOp'.kind = "timer" /\ lastOp'.name = "autoHide"
                /\ log'[i].payload.delay = configuredHideDelay
                /\ ~isVisible' ]_vars
    /\ [](~hideOnComplete =>
            /\ "autoHide" \notin pendingKinds
            /\ emitted(log, "autoHide") = {}
            /\ _hideOnCompleteTimeoutId = NoTimer)

\* a completion that reset the tour, with a hide delay of 0 configured, has
\* set the auto-hide timer to the reset's animation time alone
C17_Witness ==
    /\ lastOp.name = "next" /\ emitted(log, "complete") # {}
    /\ hideOnComplete /\ resetOnComplete /\ hideOnCompleteDelay = 0
    /\ pendingUnder(_hideOnCompleteTimeoutId, "autoHide")
    /\ \E i \in 1..Len(timers) :
         /\ timers[i].kind = "autoHide"
         /\ timers[i].rem = animationDuration
         /\ timers[i].data.delay = 0


\* who made the call of next() that the step to the next state is
completedBy == IF lastOp'.kind = "timer" THEN "autoplay" ELSE "manual"

\* C18: the source of a complete event, and of the autoHide event its
\* completion schedules, is "autoplay" when the autoplay timer called next()
\* and "manual" when the caller did.
C18_SourceIsTheCaller ==
    [][ nextOnLastStep =>
          /\ \A i \in emitted(log', "complete") :
               log'[i].payload.source = completedBy
          /\ hideOnComplete =>
               \A i \in 1..Len(timers') :
                 timers'[i].id = _hideOnCompleteTimeoutId' =>
                   timers'[i].data.source = completedBy ]_vars


----------------------------------------------------------------------------
\* reset() and the show() after it

\* a show() called when reset() has just returned replays the intro
showAfterResetReplaysIntro ==
    [][ ( /\ lastOp.kind = "call" /\ lastOp.name = "reset"
          /\ lastOp'.kind = "call" /\ lastOp'.name = "show" ) =>
            emitted(log', "introAnimationStart") # {} ]_vars

\* reset(true) of a tour with steps loads step 0
resetLoadsFirstStep ==
    [][ ( /\ lastOp'.kind = "call" /\ lastOp'.name = "reset"
          /\ lastOp'.arg = TRUE /\ Len(steps) > 0 ) =>
            /\ currentStepIndex' = 0
            /\ targetElement' = getTargetElement(steps[1].target)
            /\ currentMessages' = normalizeContent(steps[1].content)
            /\ currentMessageIndex' = 0 ]_vars

\* a beforeReset event is followed by a reset event
resetFollowsBeforeReset ==
    (emitted(log, "beforeReset") # {}) ~> (emitted(log, "reset") # {})

\* C19: reset() clears the has-shown flag, so that the show() called after
\* reset() has returned emits introAnimationStart; every beforeReset event is
\* eventually followed by a reset event; and reset(true) of a tour with steps
\* sets currentStepIndex, target and messages to those of step 0 and the
\* message index to 0.
C19_ResetThenShowReplaysIntro ==
    /\ showAfterResetReplaysIntro
    /\ resetLoadsFirstStep
    /\ resetFollowsBeforeReset


----------------------------------------------------------------------------
\* restart(): a tour of two steps, shown, hidden, stepped and restarted, also
\* while an earlier restart() waits for its settle delay

RestartOptions ==
    { [ DefaultOptions EXCEPT !.steps = << StepA, StepB >>, !.autoplay = a,
                              !.autoplayEnabled = Truthy(a) ] :
        a \in { Null, 200 } }

InitRestart == \E o \in RestartOptions : Constructed(o, MaxOps)

NextRestart ==
    \/ Show
    \/ Hide
    \/ CallNext
    \/ Restart
    \/ RestartTimer
    \/ IntroFadeTimer
    \/ IntroMoveTimer
    \/ StepSettleTimer
    \/ AutoplayTimer
    \/ Frame
    \/ Advance

SpecRestart == InitRestart /\ [][NextRestart]_vars /\ HostIsFair

\* how many settle delays of restart() are running
restartsPending(ts) ==
    Cardinality({ i \in 1..Len(ts) : ts[i].kind = "restart" })

\* a restart event is emitted with the tour on step 0 and visible, by an
\* operation that has replayed the intro before it
restartEndsOnIntro ==
    [][ emitted(log', "restart") # {} =>
          /\ currentStepIndex' = 0
          /\ isVisible'
          /\ \E i \in emitted(log', "introAnimationStart") :
               i < firstOf(log', "restart") ]_vars

\* every restart() emits beforeRestart and then either restart, or starts a
\* settle delay whose end emits restart; nothing else emits either event
restartEventsPair ==
    [][ /\ ( lastOp'.kind = "call" /\ lastOp'.name = "restart" ) =>
             /\ log'[1].name = "beforeRestart"
             /\ Cardinality(emitted(log', "beforeRestart")) = 1
             /\ IF isVisible
                THEN /\ emitted(log', "restart") = {}
                     /\ restartsPending(timers') = restartsPending(timers) + 1
                ELSE /\ Cardinality(emitted(log', "restart")) = 1
                     /\ restartsPending(timers') = restartsPending(timers)
        /\ ( lastOp'.kind = "timer" /\ lastOp'.name = "restart" ) =>
             /\ emitted(log', "beforeRestart") = {}
             /\ Cardinality(emitted(log', "restart")) = 1
             /\ restartsPending(timers') = restartsPending(timers) - 1
        /\ ~( lastOp'.name = "restart" /\ lastOp'.kind \in { "call", "timer" } ) =>
             /\ emitted(log', "beforeRestart") = {}
             /\ emitted(log', "restart") = {}
             /\ restartsPending(timers') = restartsPending(timers) ]_vars

\* a settle delay of restart() comes to its end
restartDelayEnds ==
    (restartsPending(timers) > 0) ~> (emitted(log, "restart") # {})

\* C20: restart() of a tour with steps ends, at once when hidden and after
\* its settle delay when visible, on step 0 and visible, having replayed the
\* intro, and each beforeRestart event is followed by one restart event of
\* its own, also when restart() is called during the settle delay of another.
C20_RestartReplaysIntro ==
    /\ restartEndsOnIntro
    /\ restartEventsPair
    /\ restartDelayEnds


----------------------------------------------------------------------------
\* nextMessage() and prevMessage() as the caller sees them

\* nextMessageIndex applied k times
RECURSIVE nextMessageTimes(_, _, _)
nextMessageTimes(index, n, k) ==
    IF k = 0 THEN index
    ELSE nextMessageTimes(nextMessageIndex(index, n), n, k - 1)

----------------------------------------------------------------------------
\* Replacing the messages: a tour whose second step has three messages, with
\* and without a cycle interval; the messages are replaced by goToStep,
\* setMessages and pointTo, on the hidden and on the shown tour

ContentOptions ==
    { [ DefaultOptions EXCEPT !.steps = << StepA, StepC >>,
                              !.messageInterval = i ] :
        i \in { Null, 100 } }

InitContent == \E o \in ContentOptions : Constructed(o, MaxOps)

NextContent ==
    \/ Show
    \/ Hide
    \/ GoToAnyStep
    \/ PointTo
    \/ SetAnyMessages
    \/ ResumeMessageCycle
    \/ IntroFadeTimer
    \/ IntroMoveTimer
    \/ StepSettleTimer
    \/ PointToSettleTimer
    \/ MessageCycleTimer
    \/ Frame
    \/ Advance

SpecContent == InitContent /\ [][NextContent]_vars

\* the step to the next state is a call of goToStep with the index of a step
stepChangeCall ==
    /\ lastOp'.kind = "call" /\ lastOp'.name = "goToStep"
    /\ lastOp'.arg >= 0 /\ lastOp'.arg < Len(steps)

\* the step to the next state is a call of setMessages, or of pointTo with
\* content
manualContentCall ==
    /\ lastOp'.kind = "call"
    /\ \/ lastOp'.name = "setMessages"
       \/ lastOp'.name = "pointTo" /\ lastOp'.arg[2] # NoContent

\* a message-cycle interval is pending in the timers ts
cycleRunning(ts) == \E i \in 1..Len(ts) : ts[i].kind = "messageCycle"

\* replacing the messages sets the index to 0
replacementStartsAtZero ==
    [][ (stepChangeCall \/ manualContentCall) => currentMessageIndex' = 0 ]_vars

\* goToStep starts the cycle exactly when an interval is configured and the
\* step has more than one message
stepChangeStartsCycle ==
    [][ stepChangeCall =>
          ( ( _messageIntervalId' # NoTimer /\ cycleRunning(timers') )
            <=> ( Truthy(messageInterval) /\ Len(currentMessages') > 1 ) ) ]_vars

\* setMessages and pointTo with content leave no cycle running
manualContentStopsCycle ==
    [][ manualContentCall =>
          /\ _messageIntervalId' = NoTimer
          /\ ~cycleRunning(timers') ]_vars

\* setMessages and pointTo with content mark a cycle that was running as
\* paused
manualContentPausesCycle ==
    [][ ( manualContentCall /\ _messageIntervalId # NoTimer ) =>
          _messageCyclePaused' ]_vars

\* C22: replacing the messages sets the index to 0; the cycle is started only
\* by goToStep, when an interval is configured and the step has more than one
\* message; setMessages() and pointTo() with content leave no cycle running,
\* and mark the cursor paused if a cycle was running before the call.
C22_ManualContentNeverCycles ==
    /\ replacementStartsAtZero
    /\ stepChangeStartsCycle
    /\ manualContentStopsCycle
    /\ manualContentPausesCycle


----------------------------------------------------------------------------
\* The tick of the message cycle at the last message

\* the step to the next state is a tick of the cycle with the last message
\* showing
tickAtLastMessage ==
    /\ lastOp'.kind = "timer" /\ lastOp'.name = "messageCycle"
    /\ currentMessageIndex = Len(currentMessages) - 1

\* C23: a tick of the message cycle at the last message stops the cycle and
\* emits messageCycleComplete when autoplay is active (interval configured,
\* enabled, not paused) and autoplayWaitForMessages is set; in every other
\* case it moves the index to 0, emits no messageCycleComplete and leaves the
\* interval running.
C23_CycleStopsOnlyForActiveAutoplay ==
    [][ tickAtLastMessage =>
          IF isAutoplayActive(Cur) /\ autoplayWaitForMessages
          THEN /\ emitted(log', "messageCycleComplete") # {}
               /\ _messageIntervalId' = NoTimer
               /\ currentMessageIndex' = currentMessageIndex
          ELSE /\ emitted(log', "messageCycleComplete") = {}
               /\ currentMessageIndex' = 0
               /\ \E i \in 1..Len(timers') :
                    /\ timers'[i].id = lastOp'.arg
                    /\ timers'[i].kind = "messageCycle" ]_vars


----------------------------------------------------------------------------
\* Pausing and resuming autoplay: a tour whose first step has two messages
\* cycling every 100 ms, autoplay running every 200 ms, waiting for the
\* messages or not

PauseOptions ==
    { [ DefaultOptions EXCEPT !.steps = << StepB, StepA >>,
                              !.messageInterval = 100, !.autoplay = 200,
                              !.autoplayEnabled = TRUE,
                              !.autoplayWaitForMessages = w ] :
        w \in BOOLEAN }

InitPause == \E o \in PauseOptions : Constructed(o, MaxOps)

NextPause ==
    \/ Show
    \/ PauseAutoplay
    \/ ResumeAutoplay
    \/ IntroFadeTimer
    \/ IntroMoveTimer
    \/ StepSettleTimer
    \/ ResetSettleTimer
    \/ MessageCycleTimer
    \/ AutoplayTimer
    \/ AutoplayAfterMessagesTimer
    \/ AutoHideTimer
    \/ Frame
    \/ Advance

SpecPause == InitPause /\ [][NextPause]_vars /\ HostIsFair

\* resumeAutoplay() has just resumed a paused autoplay, on a visible tour
\* with autoplay enabled that is not on its last step
resumedBeforeLastStep ==
    /\ lastOp.kind = "call" /\ lastOp.name = "resumeAutoplay"
    /\ emitted(log, "autoplayResume") # {}
    /\ isVisible /\ autoplayEnabled /\ Truthy(autoplay)
    /\ currentStepIndex < Len(steps) - 1

\* pauseAutoplay() cancels the autoplay timer and keeps autoplayEnabled
pauseKeepsEnabled ==
    [][ ( lastOp'.kind = "call" /\ lastOp'.name = "pauseAutoplay" ) =>
          /\ _autoplayTimeoutId' = NoTimer
          /\ _autoplayPaused'
          /\ autoplayEnabled' = autoplayEnabled
          /\ currentStepIndex' = currentStepIndex ]_vars

\* after the resume autoplay advances the tour, unless the caller calls
\* another method first
resumeLeadsToAdvance ==
    resumedBeforeLastStep ~>
        ( \/ hist.advance.fired
          \/ lastOp.kind = "call" /\ ~resumedBeforeLastStep )

\* after the resume a timer is pending: without one nothing runs until the
\* caller's next call, and autoplay never advances
resumeLeavesTimerPending == [](resumedBeforeLastStep => timers # << >>)

\* C24: pauseAutoplay() cancels the pending autoplay timer and leaves
\* autoplayEnabled as it is; after pauseAutoplay() and resumeAutoplay() on a
\* visible tour with autoplay enabled, autoplay eventually advances to the
\* next step, at whatever moment of the step the pause came.
C24_ResumeAdvances ==
    /\ pauseKeepsEnabled
    /\ resumeLeavesTimerPending


----------------------------------------------------------------------------
\* The caller's step definitions

\* the steps the caller gave to the constructor
suppliedSteps == (CHOOSE o \in MessagesOptions : TRUE).steps

\* C25: no operation of the engine changes the steps or their content, and
\* goToStep(i) shows the messages the caller supplied for step i.
C25_StepsAreOnlyRead ==
    [][ /\ steps' = steps
        /\ stepChangeCall =>
             currentMessages'
               = normalizeContent(suppliedSteps[lastOp'.arg + 1].content) ]_vars


----------------------------------------------------------------------------
\* What the animation events tell

\* C26: the animationStart and animationEnd events carry the type "step" when
\* goToStep started the movement and "pointTo" when pointTo did.
C26_AnimationTypeTellsTheStarter ==
    [][ /\ \A i \in emitted(log', "animationStart") :
             log'[i].payload.type =
                 IF lastOp'.kind = "call" /\ lastOp'.name = "pointTo"
                 THEN "pointTo" ELSE "step"
        /\ \A i \in emitted(log', "animationEnd") :
             log'[i].payload.type =
                 IF lastOp'.kind = "timer" /\ lastOp'.name = "pointToSettle"
                 THEN "pointTo" ELSE "step" ]_vars


----------------------------------------------------------------------------
\* The 'config' group

GroupKeys == { "config", "tracking", "autoplay" }

GroupHandlers == { "h1", "h2", "h3" }

SubscribeGroup ==
    \E event \in GroupKeys, handler \in GroupHandlers :
        /\ handler \notin subscribed(Cur)
        /\ Called("on", << event, handler >>, FALSE, on(Before, event, handler))

InitConfig == Constructed(DefaultOptions, MaxBusOps)

NextConfig ==
    \/ SubscribeGroup
    \/ SetEasing
    \/ SetTracking
    \/ SetTrackingFps
    \/ SetAutoplay
    \/ SetAutoplayWaitForMessages

SpecConfig == InitConfig /\ [][NextConfig]_vars

\* the keys under which the handlers called for an event are subscribed
keysCalled(e) == { keyOf(e.to[j]) : j \in 1..Len(e.to) }

\* every event is delivered to the handlers of one group or of none
oneGroupOrNone ==
    [][ \A i \in 1..Len(log') :
          Cardinality(keysCalled(log'[i])
                        \cap ({ EVENT_GROUPS[g].group :
                                  g \in 1..Len(EVENT_GROUPS) }
                              \cup { "config" })) <= 1 ]_vars

\* C27: a handler subscribed to 'config' is called for every event whose
\* name ends in Change, the <field>Change event of every setter included,
\* and every event is delivered to the handlers of exactly one group or of
\* none.
C27_ConfigReceivesEveryChange ==
    [][ \A i \in 1..Len(log') :
          /\ endsWithChange(log'[i].name) =>
               \A h \in subscribed(Cur) :
                 keyOf(h) = "config" =>
                   \E j \in 1..Len(log'[i].to) : log'[i].to[j] = h
          /\ Cardinality(keysCalled(log'[i])
                           \cap ({ EVENT_GROUPS[g].group :
                                     g \in 1..Len(EVENT_GROUPS) }
                                 \cup { "config" })) <= 1 ]_vars


----------------------------------------------------------------------------
\* Direction inference on a page whose target moves

\* how long the target is followed
MaxTracked == 600

MaxClock == StartTime + MaxTracked

MaxY == 120

\* the time between two calls and the movement of the target meanwhile
Elapses == { 50, 100, 200 }

Moves == { -30, -20, 20, 30 }

\* updatePosition is called, from the tracking loop or from outside, dt
\* after the last call, the target having moved by dy
UpdatePosition ==
    \E dt \in Elapses, dy \in Moves :
        /\ page.now + dt <= MaxClock
        /\ page.targetY + dy \in 0..MaxY
        /\ Install(completed(updatePosition(
               [ Before EXCEPT !.page = [ now |-> @.now + dt,
                                          targetY |-> @.targetY + dy ] ])))
        /\ lastOp' = [ kind |-> "call", name |-> "updatePosition",
                       arg |-> << dt, dy >>, same |-> FALSE ]
        /\ UNCHANGED budget

InitDirection ==
    /\ Holds([ Pointy([ DefaultOptions EXCEPT !.steps = << StepA >> ])
                 EXCEPT !.page.targetY = 60 ])
    /\ lastOp = [ kind |-> "init", name |-> "constructor", arg |-> 0,
                  same |-> FALSE ]
    /\ budget = MaxOps

NextDirection == UpdatePosition

SpecDirection == InitDirection /\ [][NextDirection]_vars

\* the displacement between the oldest and the newest retained sample
displacement(history) == history[Len(history)].y - history[1].y

\* the samples are monotonically decreasing
decreasing(history) ==
    \A i \in 1..(Len(history) - 1) : history[i + 1].y < history[i].y

inferring == manualDirection = NoDirection /\ lastOp'.name = "updatePosition"

----------------------------------------------------------------------------
\* One timer of a kind

\* the pending timers of the given kinds
pendingOf(ts, kinds) == { i \in 1..Len(ts) : ts[i].kind \in kinds }

\* C29: in every reachable state at most one autoplay timer, the step timer
\* or the 300 ms timer after the messages, is pending.
C29_OneAutoplayTimer ==
    Cardinality(pendingOf(timers, { "autoplay", "autoplayAfterMessages" })) <= 1

\* C30: in every reachable state at most one message-cycle interval is live.
C30_OneMessageCycle ==
    Cardinality(pendingOf(timers, { "messageCycle" })) <= 1


\* C31: in every reachable state at most one auto-hide timer is pending.
C31_OneAutoHideTimer ==
    Cardinality(pendingOf(timers, { "autoHide" })) <= 1


----------------------------------------------------------------------------
\* The settle timer of a movement

SettleKinds == { "stepSettle", "pointToSettle", "resetSettle" }

\* the step started a movement: goToStep and pointTo announce it with
\* animationStart, reset with beforeReset
movementStarted(l) ==
    emitted(l, "animationStart") \cup emitted(l, "beforeReset") # {}

\* C32: a goToStep, pointTo or reset issued while an earlier movement's
\* settle timer is pending cancels that timer before scheduling its own: at
\* most one settle timer is pending, it is the one moveTimeout names, and the
\* superseded timer is no longer pending, so its continuation never runs.
C32_OneSettleTimer ==
    [][ /\ Cardinality(pendingOf(timers', SettleKinds)) <= 1
        /\ \A i \in pendingOf(timers', SettleKinds) :
             timers'[i].id = moveTimeout'
        /\ movementStarted(log') =>
             /\ Cardinality(pendingOf(timers', SettleKinds)) = 1
             /\ \A j \in pendingOf(timers, SettleKinds) :
                  \A i \in pendingOf(timers', SettleKinds) :
                      timers'[i].id # timers[j].id ]_vars

\* pointTo was called right after goToStep(1), no time having passed since
\* the construction: the settle timer of goToStep was pending, and the one
\* pending now is pointTo's
C32_Witness ==
    /\ lastOp.kind = "call" /\ lastOp.name = "pointTo"
    /\ budget = MaxOps - 2
    /\ currentStepIndex = 1
    /\ hist.cycle.age = 0
    /\ \E i \in pendingOf(timers, SettleKinds) :
         timers[i].kind = "pointToSettle"


----------------------------------------------------------------------------
\* The expiry of an autoplay timer

\* C33: an expiring autoplay timer emits autoplayNext, and calls next(), only
\* if at that moment autoplay is enabled, not paused and the tour is visible.
C33_AdvanceChecksLiveState ==
    [][ emitted(log', "autoplayNext") # {} =>
          /\ lastOp'.kind = "timer"
          /\ lastOp'.name \in { "autoplay", "autoplayAfterMessages" }
          /\ autoplayEnabled
          /\ ~_autoplayPaused
          /\ isVisible ]_vars


\* an expiring autoplay timer never advances a paused or a hidden tour
advanceNeverPausedOrHidden ==
    [][ emitted(log', "autoplayNext") # {} =>
          /\ ~_autoplayPaused
          /\ isVisible ]_vars


----------------------------------------------------------------------------
\* The controls of the message cycle

\* the calls made in one behaviour of SpecControl
ControlOps == 4

ControlOptions ==
    { [ DefaultOptions EXCEPT !.steps = << StepC, StepA >>,
                              !.messageInterval = mi ] :
        mi \in { Null, 100 } }

InitControl == \E o \in ControlOptions : Constructed(o, ControlOps)

NextControl ==
    \/ Show
    \/ Hide
    \/ GoToStep
    \/ Restart
    \/ PauseMessageCycle
    \/ ResumeMessageCycle
    \/ StartMessageCycle
    \/ StopMessageCycle
    \/ SetMessageInterval
    \/ IntroFadeTimer
    \/ IntroMoveTimer
    \/ StepSettleTimer
    \/ RestartTimer
    \/ MessageCycleTimer
    \/ Frame
    \/ Advance

SpecControl == InitControl /\ [][NextControl]_vars


resumeCall == lastOp'.kind = "call" /\ lastOp'.name = "resumeMessageCycle"

\* the cycle is paused: marked paused and not running
cyclePaused == _messageCyclePaused /\ _messageIntervalId = NoTimer

\* C34: resumeMessageCycle() starts the cycle, emits messageCycleResume and
\* returns true only when the cycle is paused and not running; when the cycle
\* is running or stopped it returns false, emits nothing and starts no
\* interval.
C34_ResumeOnlyFromPaused ==
    [][ resumeCall =>
          /\ hist'.returned = "true" =>
               /\ cyclePaused
               /\ emitted(log', "messageCycleResume") # {}
               /\ cycleRunning(timers')
          /\ ~cyclePaused =>
               /\ hist'.returned = "false"
               /\ log' = << >>
               /\ timers' = timers ]_vars


\* isMessageCycleActive (1214-1216)
isMessageCycleActive == _messageIntervalId # NoTimer

\* isMessageCyclePaused (1222-1224)
isMessageCyclePaused == _messageCyclePaused

\* C36: the message cycle is stopped, running or paused: in no reachable
\* state are isMessageCycleActive() and isMessageCyclePaused() both true.
C36_RunningOrPausedNotBoth == ~(isMessageCycleActive /\ isMessageCyclePaused)


----------------------------------------------------------------------------
\* The intro's continuations after hide()

\* a continuation of the intro of show() runs while the tour is hidden
staleIntro ==
    /\ lastOp'.kind = "timer"
    /\ lastOp'.name \in { "introFade", "introMove" }
    /\ ~isVisible

\* the stale continuations schedule no autoplay
staleIntroSchedulesNoAutoplay ==
    [][ staleIntro =>
          pendingOf(timers', { "autoplay", "autoplayAfterMessages" }) = {} ]_vars

\* C35: when hide() is called during the first-show intro, the intro's
\* continuations emit no show event, start no message cycle and schedule no
\* autoplay while the tour is hidden.
C35_HideInvalidatesIntro ==
    [][ staleIntro =>
          /\ emitted(log', "show") = {}
          /\ ~cycleRunning(timers')
          /\ _messageIntervalId' = NoTimer
          /\ pendingOf(timers', { "autoplay", "autoplayAfterMessages" }) = {} ]_vars



----------------------------------------------------------------------------
\* The message cycle of a hidden tour

\* no interval of the message cycle is live while the tour is hidden
hiddenHasNoCycle ==
    ~isVisible => ~cycleRunning(timers) /\ _messageIntervalId = NoTimer

\* no timer changes currentMessageIndex of a hidden tour
hiddenIndexKept ==
    [][ lastOp'.kind = "timer" /\ ~isVisible /\ ~isVisible' =>
          currentMessageIndex' = currentMessageIndex ]_vars

\* C37: while the tour is hidden no message-cycle interval is live and no
\* timer changes currentMessageIndex, whatever was called while hidden.
C37_HiddenCycleStopped == []hiddenHasNoCycle /\ hiddenIndexKept



----------------------------------------------------------------------------
\* show() after hide() and a paused message cycle

\* show() is called after hide(), with no other call in between
showAfterHide ==
    lastOp'.kind = "call" /\ lastOp'.name = "show" /\ hist.preHide.after

\* show() after hide() starts the cycle only if hide() found it running
showStartsOnlyWhatHideStopped ==
    [][ showAfterHide /\ ~cycleRunning(timers) /\ cycleRunning(timers') =>
          hist.preHide.cycle ]_vars

\* C38: show() after hide() does not start a message cycle that the caller
\* had paused before the hide().
C38_ShowKeepsCyclePaused ==
    [][ showAfterHide /\ cyclePaused /\ ~hist.preHide.cycle =>
          ~cycleRunning(timers') /\ _messageIntervalId' = NoTimer ]_vars



----------------------------------------------------------------------------
\* The tracking loop

TrackingOps == 4

\* a tour of one step, or an instance with neither steps nor target
TrackingOptions ==
    { [ DefaultOptions EXCEPT !.steps = st, !.tracking = tr ] :
        st \in { << >>, << StepA >> }, tr \in BOOLEAN }

InitTracking == \E o \in TrackingOptions : Constructed(o, TrackingOps)

NextTracking ==
    \/ Show
    \/ Hide
    \/ PointTo
    \/ UpdateTarget
    \/ SetTracking
    \/ IntroFadeTimer
    \/ IntroMoveTimer
    \/ PointToSettleTimer
    \/ Frame
    \/ Advance

SpecTracking == InitTracking /\ [][NextTracking]_vars

\* the tracking loop is running: its next frame callback is pending
loopRunning == _rafId # NoTimer /\ _rafId \in frames

\* at most one frame callback is pending
oneLoop == Cardinality(frames) <= 1

\* a visible instance with tracking enabled and a target is tracking
trackingWhenDue ==
    isVisible /\ tracking /\ targetElement # NoElement => loopRunning

\* no track event is emitted on a hidden instance
noTrackWhileHidden ==
    [][ emitted(log', "track") # {} => isVisible' ]_vars

\* pointTo() or updateTarget() gives a target to a visible instance that had
\* none, when the intro of show() is over
targetSupplied ==
    /\ pendingOf(timers', { "introFade", "introMove" }) = {}
    /\ lastOp'.kind = "call"
    /\ lastOp'.name \in { "pointTo", "updateTarget" }
    /\ isVisible /\ isVisible'
    /\ tracking'
    /\ targetElement = NoElement
    /\ targetElement' # NoElement

\* C39: when pointTo() or updateTarget() supplies a target to a visible
\* instance that had none and tracking is enabled, the tracking loop is
\* running afterwards.
C39_TargetRestartsTracking ==
    [][ targetSupplied => loopRunning' ]_vars



----------------------------------------------------------------------------
\* An uninterrupted autoplay run: show() is the only call

\* a step with two messages and a duration of its own
StepTimed == [ StepB EXCEPT !.duration = 100 ]

RunSteps ==
    { << StepA >>, << StepB >>, << StepA, StepB >>, << StepB, StepA >>,
      << StepTimed, StepA >>, << StepC, StepB, StepA >>,
      << StepA, StepTimed, StepC >> }

RunOptions ==
    { [ DefaultOptions EXCEPT !.steps = st, !.autoplay = 200,
                              !.autoplayEnabled = TRUE,
                              !.messageInterval = mi,
                              !.autoplayWaitForMessages = w,
                              !.resetOnComplete = roc,
                              !.hideOnComplete = hoc,
                              !.initialPosition = ip ] :
        st \in RunSteps, mi \in { Null, 100 }, w \in BOOLEAN,
        roc \in BOOLEAN, hoc \in BOOLEAN, ip \in { "center", "first-step" } }

InitRun == \E o \in RunOptions : Constructed(o, 1)

NextRun ==
    \/ Show
    \/ IntroFadeTimer
    \/ IntroMoveTimer
    \/ StepSettleTimer
    \/ ResetSettleTimer
    \/ MessageCycleTimer
    \/ AutoplayTimer
    \/ AutoplayAfterMessagesTimer
    \/ AutoHideTimer
    \/ Frame
    \/ Advance

\* the host runs the due timers and lets time pass
SpecRun == InitRun /\ [][NextRun]_vars /\ HostIsFair


\* the run is on: show() was called and the tour is not complete
runOn == budget = 0 /\ autoplayEnabled

\* the timers that carry the run forward; the message cycle does when autoplay
\* waits for the messages
Driving ==
    { "introFade", "introMove", "stepSettle", "autoplay",
      "autoplayAfterMessages" }
      \cup IF autoplayWaitForMessages THEN { "messageCycle" } ELSE {}

\* while the run is on, a timer that carries it forward is pending
runGoesOn == runOn => pendingOf(timers, Driving) # {}

\* while the run is on, the step index changes only to the next step
stepsInOrder ==
    [][ runOn /\ currentStepIndex' # currentStepIndex /\ autoplayEnabled' =>
          currentStepIndex' = currentStepIndex + 1 ]_vars

\* complete and autoplayComplete are emitted together, once, from the last
\* step of the run that is on
completeOnce ==
    [][ emitted(log', "complete") # {} \/ emitted(log', "autoplayComplete") # {} =>
          /\ runOn
          /\ currentStepIndex = Len(steps) - 1
          /\ Cardinality(emitted(log', "complete")) = 1
          /\ Cardinality(emitted(log', "autoplayComplete")) = 1
          /\ ~autoplayEnabled' ]_vars

\* once the run is complete, nothing advances the tour
neverAdvancesAgain ==
    [][ budget = 0 /\ ~autoplayEnabled =>
          /\ emitted(log', "autoplayNext") = {}
          /\ emitted(log', "next") = {}
          /\ emitted(log', "stepChange") = {}
          /\ ~autoplayEnabled' ]_vars


\* the run completes
runCompletes == runOn ~> ~autoplayEnabled

\* C40: an autoplay run in which show() is the only call visits the steps in
\* order, each once, then emits complete and autoplayComplete once, from the
\* last step, and advances no more.
C40_AutoplayRun ==
    /\ []runGoesOn
    /\ stepsInOrder
    /\ completeOnce
    /\ neverAdvancesAgain
    /\ runCompletes

\* a run of three steps has completed after the messages of its last step
C40_Witness ==
    /\ budget = 0 /\ ~autoplayEnabled
    /\ Len(steps) = 3 /\ steps[3] = StepC
    /\ ~resetOnComplete /\ currentStepIndex = 2
    /\ lastOp.kind = "timer" /\ lastOp.name = "autoplayAfterMessages"
    /\ emitted(log, "autoplayComplete") # {}

====
